---- MODULE Spec2Model ----
(***************************************************************************)
(* mping-rs: the per-target ping loop, its detached send tasks, the        *)
(* statistics update with its classifier, and the engine's shutdown.       *)
(*                                                                         *)
(* Time is in milliseconds.  Durations of RTT samples are in microseconds. *)
(* One target is modelled: targets share nothing but the quit flag and the *)
(* clock, and every pinger runs the same ping_loop.                        *)
(***************************************************************************)
EXTENDS Integers, Sequences, FiniteSets, TLC

\* ------------------------------------------------------------------------
\* Bounds of the model
\* ------------------------------------------------------------------------

\* Ticks the ping loop may take once a send has ended in a reply or error.
MaxTicks == 3

\* Ticks the ping loop may take while every send so far has timed out.
MaxTicksQuiet == 11

\* Presses of the pause key.
MaxToggles == 2

\* Ticks the ping loop may take after quit has been set.
MaxQuitTicks == 2

\* Capacity requested for the RTT window (LatencyWindow::new clamps it).
HistSize == 2

\* Capacity of the detailed packet history.
Detailed == 3

\* Updates for which the scenario harness explores every result.
MaxFree == 4

\* Length of a run of equal results in the mock client's scripts.
RunLen == 10

\* Pushes into the window on its own.
MaxPushes == 6

\* Pushes into the packet history on its own.
MaxRecords == 5

\* Calls of LatencyWindow::clear in a run of the window on its own.
MaxClears == 1

\* Pings dispatched and frames drawn in a run that follows the target's
\* lock.
MaxLockSends == 2

MaxFrames == 2

\* Target specs and exclusion specs on a command line.
MaxTargets == 2

MaxExcludes == 1

\* Addresses of the longest range whose expansion is listed address by
\* address.
MaxSpan == 5

\* Tick periods by which the runtime may wake the ping loop late, and ticks
\* of the loop before which it may do so.
MaxLate == 3

\* ------------------------------------------------------------------------
\* Program constants
\* ------------------------------------------------------------------------

DEFAULT_TICK == 200

MIN_WINDOW_SIZE == 3

\* The smallest --histsize and --detailed the argument parser accepts.
MinHistSize == 60

MinDetailed == 10

MinDurationMs == 10

MaxIntervalMs == 10000

MaxTimeoutMs == 5000

PendingLimit == 4

SeqModulus == 65536

NotReachableAfter == 10

FlappyWindow == 10

FlappyThreshold == 5

LossyWindow == 5

LaggyWindow == 10

LaggyFactor == 2

\* HistorySnapshot::new_from looks at the last 10 records.
InspectWindow == 10

\* The largest expansion of a range.
MaxExpansion == 65536

\* The largest last octet and the largest last segment of a short range.
OctetMax == 255

SegmentMax == 65535

\* Bits and limbs of an address: u32 and u128 are kept as big-endian
\* sequences of 16-bit limbs, 2 for IPv4 and 8 for IPv6.
LimbBits == 16

LimbBase == 65536

V4Limbs == 2

V6Limbs == 8

\* ------------------------------------------------------------------------
\* Helpers
\* ------------------------------------------------------------------------

Min2(a, b) == IF a <= b THEN a ELSE b

Max2(a, b) == IF a >= b THEN a ELSE b

SetMin(S) == CHOOSE x \in S : \A y \in S : x <= y

RECURSIVE SeqSum(_)
SeqSum(s) == IF s = <<>> THEN 0 ELSE Head(s) + SeqSum(Tail(s))

\* Option<T>: <<>> is None, <<v>> is Some(v).
None == <<>>

Some(v) == <<v>>

\* Mutant: the first n elements are taken.
RevTakeOldest(s, n) == [i \in 1..Min2(n, Len(s)) |-> s[Min2(n, Len(s)) + 1 - i]]

\* The last n elements of s, newest first (iter().rev().take(n)).
RevTake(s, n) == [i \in 1..Min2(n, Len(s)) |-> s[Len(s) + 1 - i]]

\* ------------------------------------------------------------------------
\* MpConfig::parse: the interval/timeout clamps
\* ------------------------------------------------------------------------

ClampInterval(d) ==
    IF d < MinDurationMs THEN MinDurationMs
    ELSE IF d > MaxIntervalMs THEN MaxIntervalMs
    ELSE d

ClampTimeout(d) ==
    IF d < MinDurationMs THEN MinDurationMs
    ELSE IF d > MaxTimeoutMs THEN MaxTimeoutMs
    ELSE d

\* Mutant: the timeout is not limited by the interval.
LimitTimeoutOff(timeout, interval) == timeout

LimitTimeout(timeout, interval) ==
    LET limit == interval * PendingLimit
    IN  IF timeout > limit THEN limit ELSE timeout

ParseConfig(reqInterval, reqTimeout) ==
    LET interval == ClampInterval(reqInterval)
    IN  [interval |-> interval,
         timeout  |-> LimitTimeout(ClampTimeout(reqTimeout), interval)]

\* Requested <<interval, timeout>> pairs (ms) of the runs that are explored.
ReqConfigs == {<<5, 100>>, <<300, 250>>}

\* The requested pair of the runs explored under fairness.
FairReqConfigs == {<<300, 250>>}

\* Period of the ping loop's ticker.
TickPeriod(c) == Min2(c.interval, DEFAULT_TICK)

\* ------------------------------------------------------------------------
\* PacketRecord / PacketHistory
\* ------------------------------------------------------------------------

\* n is the value of `sent` the record's sequence number was taken from and
\* ord the number of updates applied before this record was pushed; both are
\* history variables, the program keeps seq, sent and rtt.
PacketRecordNew(seq, at, n) ==
    [seq |-> seq, sent |-> at, rtt |-> None, n |-> n, ord |-> 0]

set_rtt(rec, dur) == [rec EXCEPT !.rtt = Some(dur)]

has_response(rec) == rec.rtt # None

PacketHistoryNew(capacity) == [capacity |-> capacity, records |-> <<>>]

PopFront(s) == IF s = <<>> THEN s ELSE Tail(s)

\* Mutant: the new record goes to the front of the deque.
PacketHistoryPushFront(h, rec) ==
    LET kept == IF Len(h.records) = h.capacity
                THEN PopFront(h.records)
                ELSE h.records
    IN  [h EXCEPT !.records = <<rec>> \o kept]

PacketHistoryPush(h, rec) ==
    LET kept == IF Len(h.records) = h.capacity
                THEN PopFront(h.records)
                ELSE h.records
    IN  [h EXCEPT !.records = Append(kept, rec)]

recent_losses(h, n) ==
    LET last == RevTake(h.records, n)
    IN  Cardinality({i \in DOMAIN last : ~has_response(last[i])})

\* Mutant: every record is compared with the newest one.
recent_transitions_newest(h, n) ==
    LET last == RevTake(h.records, n)
    IN  Cardinality({i \in 1..(Len(last) - 1) :
                        has_response(last[1]) # has_response(last[i + 1])})

recent_transitions(h, n) ==
    LET last == RevTake(h.records, n)
    IN  Cardinality({i \in 1..(Len(last) - 1) :
                        has_response(last[i]) # has_response(last[i + 1])})

\* Mutant: the sum is divided by the number of records looked at.
PacketHistoryMeanOfAll(h, n) ==
    IF h.records = <<>> THEN None
    ELSE IF n > Len(h.records) THEN None
    ELSE LET last == RevTake(h.records, n)
             idx  == {i \in DOMAIN last : has_response(last[i])}
             rtts == [i \in DOMAIN last |->
                        IF i \in idx THEN last[i].rtt[1] ELSE 0]
         IN  IF idx = {} THEN None
             ELSE Some(SeqSum(rtts) \div Len(last))

\* PacketHistory::mean(Some(n)): <<>> for Err, else <<mean in microseconds>>.
PacketHistoryMeanN(h, n) ==
    IF h.records = <<>> THEN None
    ELSE IF n > Len(h.records) THEN None
    ELSE LET last == RevTake(h.records, n)
             idx  == {i \in DOMAIN last : has_response(last[i])}
             rtts == [i \in DOMAIN last |->
                        IF i \in idx THEN last[i].rtt[1] ELSE 0]
         IN  IF idx = {} THEN None
             ELSE Some(SeqSum(rtts) \div Cardinality(idx))

\* PacketHistory::mean(None): <<>> for Err, else <<mean in microseconds>>.
PacketHistoryMeanAll(h) ==
    IF h.records = <<>> THEN None
    ELSE LET recs == h.records
             idx  == {i \in DOMAIN recs : has_response(recs[i])}
             rtts == [i \in DOMAIN recs |->
                        IF i \in idx THEN recs[i].rtt[1] ELSE 0]
         IN  IF idx = {} THEN None
             ELSE Some(SeqSum(rtts) \div Cardinality(idx))

\* Mutant: the fraction of records that have a response.
loss_answered(h) ==
    IF h.records = <<>> THEN <<0, 1>>
    ELSE <<Cardinality({i \in DOMAIN h.records : has_response(h.records[i])}),
           Len(h.records)>>

\* PacketHistory::loss as the fraction <<sent - recv, sent>>; <<0, 1>> is 0.0.
loss(h) ==
    IF h.records = <<>> THEN <<0, 1>>
    ELSE LET sent == Len(h.records)
             recv == Cardinality({i \in DOMAIN h.records :
                                     has_response(h.records[i])})
         IN  <<sent - recv, sent>>

\* HistorySnapshot::new_from: a record among the last 10 whose sequence
\* number plus one (wrapping at 16 bits) is not that of the record after it.
gaps_in_seqs(h) ==
    LET last == RevTake(h.records, InspectWindow)
    IN  \E i \in 1..(Len(last) - 1) :
            (last[i + 1].seq + 1) % SeqModulus # last[i].seq

\* HistorySnapshot::new_from: last < second_last, compared as u16.
last_out_of_order(h) ==
    /\ Len(h.records) >= 2
    /\ h.records[Len(h.records)].seq < h.records[Len(h.records) - 1].seq

\* ------------------------------------------------------------------------
\* LatencyWindow (the rolling RTT window)
\* ------------------------------------------------------------------------

\* buf is indexed 1..cap here, head is the 0-based position of the source.
\* variance is the exact fraction <<numerator, denominator>>; stdev is kept
\* by its square, the same fraction.
\* Mutant: the capacity asked for is taken as it is.
LatencyWindowNewUnclamped(cap) ==
    [cap |-> cap, buf |-> [i \in 1..cap |-> 0], head |-> 0, len |-> 0,
     sum |-> 0, sum_sq |-> 0,
     variance |-> <<0, 1>>, stdev_sq |-> <<0, 1>>,
     minq |-> <<>>, maxq |-> <<>>, index |-> 0]

LatencyWindowNew(cap) ==
    LET c == Max2(cap, MIN_WINDOW_SIZE)
    IN  [cap |-> c, buf |-> [i \in 1..c |-> 0], head |-> 0, len |-> 0,
         sum |-> 0, sum_sq |-> 0,
         variance |-> <<0, 1>>, stdev_sq |-> <<0, 1>>,
         minq |-> <<>>, maxq |-> <<>>, index |-> 0]

\* Mutant: an entry stays one push longer than the window.
RECURSIVE DropAgedLate(_, _)
DropAgedLate(q, cutoff) ==
    IF q # <<>> /\ Head(q)[2] < cutoff - 1
    THEN DropAgedLate(Tail(q), cutoff)
    ELSE q

RECURSIVE DropAged(_, _)
DropAged(q, cutoff) ==
    IF q # <<>> /\ Head(q)[2] < cutoff THEN DropAged(Tail(q), cutoff) ELSE q

\* Mutant: no tail is popped.
PopLargerTailsNone(q, val) == q

RECURSIVE PopLargerTails(_, _)
PopLargerTails(q, val) ==
    IF q # <<>> /\ q[Len(q)][1] > val
    THEN PopLargerTails(SubSeq(q, 1, Len(q) - 1), val)
    ELSE q

RECURSIVE PopSmallerTails(_, _)
PopSmallerTails(q, val) ==
    IF q # <<>> /\ q[Len(q)][1] < val
    THEN PopSmallerTails(SubSeq(q, 1, Len(q) - 1), val)
    ELSE q

\* Mutant: an eviction takes the old value out of sum, not out of sum_sq.
LatencyWindowPushKeepSq(w, val) ==
    LET idx     == w.index
        growing == w.len < w.cap
        old     == w.buf[w.head + 1]
        len1    == IF growing THEN w.len + 1 ELSE w.len
        sum1    == IF growing THEN w.sum + val ELSE w.sum + val - old
        sq1     == w.sum_sq + val * val
        num     == len1 * sq1 - sum1 * sum1
        var1    == IF len1 > 1
                   THEN <<IF num < 0 THEN 0 ELSE num, len1 * len1>>
                   ELSE w.variance
        sd1     == IF len1 > 1 THEN var1 ELSE w.stdev_sq
        cutoff  == Max2(idx - Max2(w.cap - 1, 0), 0)
        minq1   == Append(PopLargerTails(DropAged(w.minq, cutoff), val),
                          <<val, idx>>)
        maxq1   == Append(PopSmallerTails(DropAged(w.maxq, cutoff), val),
                          <<val, idx>>)
    IN  [w EXCEPT !.buf = [w.buf EXCEPT ![w.head + 1] = val],
                  !.head = (w.head + 1) % w.cap,
                  !.len = len1, !.sum = sum1, !.sum_sq = sq1,
                  !.variance = var1, !.stdev_sq = sd1,
                  !.minq = minq1, !.maxq = maxq1,
                  !.index = idx + 1]

LatencyWindowPush(w, val) ==
    LET idx     == w.index
        growing == w.len < w.cap
        old     == w.buf[w.head + 1]
        len1    == IF growing THEN w.len + 1 ELSE w.len
        sum1    == IF growing THEN w.sum + val ELSE w.sum + val - old
        sq1     == IF growing THEN w.sum_sq + val * val
                   ELSE w.sum_sq + val * val - old * old
        num     == len1 * sq1 - sum1 * sum1
        var1    == IF len1 > 1
                   THEN <<IF num < 0 THEN 0 ELSE num, len1 * len1>>
                   ELSE w.variance
        sd1     == IF len1 > 1 THEN var1 ELSE w.stdev_sq
        cutoff  == Max2(idx - Max2(w.cap - 1, 0), 0)
        minq1   == Append(PopLargerTails(DropAged(w.minq, cutoff), val),
                          <<val, idx>>)
        maxq1   == Append(PopSmallerTails(DropAged(w.maxq, cutoff), val),
                          <<val, idx>>)
    IN  [w EXCEPT !.buf = [w.buf EXCEPT ![w.head + 1] = val],
                  !.head = (w.head + 1) % w.cap,
                  !.len = len1, !.sum = sum1, !.sum_sq = sq1,
                  !.variance = var1, !.stdev_sq = sd1,
                  !.minq = minq1, !.maxq = maxq1,
                  !.index = idx + 1]

\* LatencyWindow::mean as the fraction <<sum, len>>; <<>> for Err.
LatencyWindowMean(w) == IF w.len = 0 THEN None ELSE Some(<<w.sum, w.len>>)

\* Mutant: the running variance and deviation are left as they are.
LatencyWindowClearKeepStats(w) ==
    [w EXCEPT !.buf = [i \in 1..w.cap |-> 0],
              !.head = 0, !.len = 0, !.sum = 0, !.sum_sq = 0,
              !.minq = <<>>, !.maxq = <<>>, !.index = 0]

\* LatencyWindow::clear
LatencyWindowClear(w) ==
    [w EXCEPT !.buf = [i \in 1..w.cap |-> 0],
              !.head = 0, !.len = 0, !.sum = 0, !.sum_sq = 0,
              !.variance = <<0, 1>>, !.stdev_sq = <<0, 1>>,
              !.minq = <<>>, !.maxq = <<>>, !.index = 0]

\* minq.front().map(|(v, _)| *v).unwrap_or_default()
FrontOrDefault(q) == IF q = <<>> THEN 0 ELSE Head(q)[1]

\* LatencyWindow::mean_min_max: <<>> for Err, else the mean as the fraction
\* <<sum, len>>, the minimum and the maximum.
mean_min_max(w) ==
    IF w.len = 0 THEN None
    ELSE Some([mean |-> <<w.sum, w.len>>,
               min  |-> FrontOrDefault(w.minq),
               max  |-> FrontOrDefault(w.maxq)])

\* LatencyWindow::variance: <<>> for Err, else the fraction it holds.
variance(w) == IF w.len = 0 THEN None ELSE Some(w.variance)

\* LatencyWindow::stdev: <<>> for Err, else the square of the deviation.
stdev(w) == IF w.len = 0 THEN None ELSE Some(w.stdev_sq)

\* Mutant: the slot at head, the oldest one of a full ring, is read.
LatencyWindowLastOldest(w) ==
    IF w.len = 0 THEN None ELSE Some(w.buf[(w.head % w.cap) + 1])

\* LatencyWindow::last: <<>> for Err, else the latest sample.
LatencyWindowLast(w) ==
    IF w.len = 0 THEN None
    ELSE Some(w.buf[((w.head + w.cap - 1) % w.cap) + 1])

\* Mutant: the scan starts at head instead of at the newest sample.
stdev_n_from_head(w, n) ==
    IF w.len = 0 THEN None
    ELSE IF n = 1 THEN Some(<<0, 1>>)
    ELSE IF n < 1 \/ n > w.len THEN None
    ELSE LET vals    == [i \in 1..n |->
                           w.buf[((w.head + w.cap - (i - 1)) % w.cap) + 1]]
             sub_sum == SeqSum(vals)
             dev     == SeqSum([i \in 1..n |->
                           (n * vals[i] - sub_sum) * (n * vals[i] - sub_sum)])
         IN  Some(<<dev, n * n * (n - 1)>>)

\* LatencyWindow::stdev_n: <<>> for Err, else the square of the result as a
\* fraction.  With sub_mean = sub_sum / n, the sum of (v - sub_mean)^2 over
\* the n values is the sum of (n * v - sub_sum)^2 divided by n^2.
stdev_n(w, n) ==
    IF w.len = 0 THEN None
    ELSE IF n = 1 THEN Some(<<0, 1>>)
    ELSE IF n < 1 \/ n > w.len THEN None
    ELSE LET vals    == [i \in 1..n |->
                           w.buf[((w.head + w.cap - 1 - (i - 1)) % w.cap) + 1]]
             sub_sum == SeqSum(vals)
             dev     == SeqSum([i \in 1..n |->
                           (n * vals[i] - sub_sum) * (n * vals[i] - sub_sum)])
         IN  Some(<<dev, n * n * (n - 1)>>)

\* ------------------------------------------------------------------------
\* PingTargetInner: counters, window, history, status
\* ------------------------------------------------------------------------

PingStatus == {"None", "Ok", "Timeout", "NotReachable", "Error",
               "Laggy", "Lossy", "Flappy", "Paused"}

PingTargetNew(histsize, detailed) ==
    [sent |-> 0, recv |-> 0, last_seq |-> 0, last_sent |-> None,
     rtts |-> LatencyWindowNew(histsize),
     recent |-> PacketHistoryNew(detailed),
     status |-> "None"]

\* Mutant: the records that have a response are counted.
is_lossy_answered(stats, n) ==
    2 * (Len(RevTake(stats.recent.records, n))
            - recent_losses(stats.recent, n)) >= n

is_lossy(stats, n) == 2 * recent_losses(stats.recent, n) >= n

is_flappy(stats, n, threshold) ==
    recent_transitions(stats.recent, n) >= threshold

\* Ok(bool) is <<bool>>, Err is <<>>.
is_laggy(stats, n, factor) ==
    LET m           == LatencyWindowMean(stats.rtts)
        recent_mean == PacketHistoryMeanN(stats.recent, n)
    IN  IF recent_mean = None THEN None
        ELSE IF m = None THEN Some(recent_mean[1] > 0)
        ELSE Some(recent_mean[1] * m[1][2] > m[1][1] * factor)

\* ------------------------------------------------------------------------
\* update_ping_stats, in the order of its statements
\* ------------------------------------------------------------------------

\* Results of a send: a reply with its RTT, a timeout, any other error.
RttFast == 1000

RttSlow == 6000

Rtts == {RttFast, RttSlow}

Reply(rtt) == [kind |-> "reply", rtt |-> rtt]

TimeoutErr == [kind |-> "timeout", rtt |-> 0]

OtherErr == [kind |-> "error", rtt |-> 0]

\* Mutant: the test of recv is inverted.
TimeoutStatusRecvSome(stats) ==
    IF stats.sent > NotReachableAfter /\ stats.recv # 0
    THEN "NotReachable"
    ELSE "Timeout"

\* Mutant: the comparison with 10 includes 10.
TimeoutStatusFrom10(stats) ==
    IF stats.sent >= NotReachableAfter /\ stats.recv = 0
    THEN "NotReachable"
    ELSE "Timeout"

\* Mutant: recv is not looked at.
TimeoutStatusAnyRecv(stats) ==
    IF stats.sent > NotReachableAfter THEN "NotReachable" ELSE "Timeout"

\* The status a timeout leaves.
TimeoutStatus(stats) ==
    IF stats.sent > NotReachableAfter /\ stats.recv = 0
    THEN "NotReachable"
    ELSE "Timeout"

\* Mutant: recv counts every result.
ApplyResultCountAll(stats, res, rec) ==
    IF res.kind = "reply"
    THEN [stats EXCEPT !.recv = @ + 1,
                       !.rtts = LatencyWindowPush(@, res.rtt),
                       !.status = "Ok",
                       !.recent = PacketHistoryPush(@, set_rtt(rec, res.rtt))]
    ELSE [stats EXCEPT !.recv = @ + 1,
                       !.status = IF res.kind = "timeout"
                                  THEN TimeoutStatus(stats)
                                  ELSE "Error",
                       !.recent = PacketHistoryPush(@, rec)]

\* Mutant: the record of a transport error is not pushed.
ApplyResultErrNoRecord(stats, res, rec) ==
    IF res.kind = "reply"
    THEN [stats EXCEPT !.recv = @ + 1,
                       !.rtts = LatencyWindowPush(@, res.rtt),
                       !.status = "Ok",
                       !.recent = PacketHistoryPush(@, set_rtt(rec, res.rtt))]
    ELSE IF res.kind = "timeout"
    THEN [stats EXCEPT !.status = TimeoutStatus(stats),
                       !.recent = PacketHistoryPush(@, rec)]
    ELSE [stats EXCEPT !.status = "Error"]

\* match res { ... }; stats.recent.push(rec);
ApplyResult(stats, res, rec) ==
    IF res.kind = "reply"
    THEN [stats EXCEPT !.recv = @ + 1,
                       !.rtts = LatencyWindowPush(@, res.rtt),
                       !.status = "Ok",
                       !.recent = PacketHistoryPush(@, set_rtt(rec, res.rtt))]
    ELSE [stats EXCEPT !.status = IF res.kind = "timeout"
                                  THEN TimeoutStatus(stats)
                                  ELSE "Error",
                       !.recent = PacketHistoryPush(@, rec)]

\* Mutant: the flag is not looked at.
PausedOverrideAlways(status, is_paused) ==
    IF status # "Paused" THEN "Paused" ELSE status

\* Mutant: the result of the send is left in place while paused.
PausedOverrideOff(status, is_paused) == status

\* if tgt.is_paused() && !matches!(stats.status, Paused) { status = Paused }
PausedOverride(status, is_paused) ==
    IF is_paused /\ status # "Paused" THEN "Paused" ELSE status

\* Mutant: lossy is tried before flappy.
ClassifyLossyFirst(stats) ==
    IF stats.status \in {"Ok", "Timeout"}
    THEN IF is_lossy(stats, LossyWindow) THEN "Lossy"
         ELSE IF is_flappy(stats, FlappyWindow, FlappyThreshold) THEN "Flappy"
         ELSE IF is_laggy(stats, LaggyWindow, LaggyFactor) = Some(TRUE)
              THEN "Laggy"
         ELSE stats.status
    ELSE stats.status

\* Mutant: the cascade runs whatever the status is.
ClassifyAnyStatus(stats) ==
    IF is_flappy(stats, FlappyWindow, FlappyThreshold) THEN "Flappy"
    ELSE IF is_lossy(stats, LossyWindow) THEN "Lossy"
    ELSE IF is_laggy(stats, LaggyWindow, LaggyFactor) = Some(TRUE)
         THEN "Laggy"
    ELSE stats.status

\* The classifier cascade.
Classify(stats) ==
    IF stats.status \in {"Ok", "Timeout"}
    THEN IF is_flappy(stats, FlappyWindow, FlappyThreshold) THEN "Flappy"
         ELSE IF is_lossy(stats, LossyWindow) THEN "Lossy"
         ELSE IF is_laggy(stats, LaggyWindow, LaggyFactor) = Some(TRUE)
              THEN "Laggy"
         ELSE stats.status
    ELSE stats.status

update_ping_stats(stats, is_paused, res, rec) ==
    LET matched  == ApplyResult(stats, res, rec)
        override == [matched EXCEPT
                        !.status = PausedOverride(@, is_paused)]
    IN  [override EXCEPT !.status = Classify(override)]

\* ------------------------------------------------------------------------
\* ping_loop: the critical section that numbers a ping
\* ------------------------------------------------------------------------

\* Mutant: the count is used as it is.
NextSeqNoWrap(stats) == stats.sent

NextSeq(stats) == stats.sent % SeqModulus

\* Mutant: the sequence number is taken, sent is not incremented.
DispatchNoCount(stats, at) ==
    [stats EXCEPT !.last_seq = NextSeq(stats),
                  !.last_sent = Some(at)]

Dispatch(stats, at) ==
    [stats EXCEPT !.sent = @ + 1,
                  !.last_seq = NextSeq(stats),
                  !.last_sent = Some(at)]

\* Mutant: a ping is due on every tick.
NotDueNever(at, next, later) == FALSE

\* if Instant::now() <= next_ping { continue }.  Two instants that fall on
\* the same millisecond of the model compare either way: `later` says that
\* now() is the later one.
NotDue(at, next, later) == at < next \/ (at = next /\ ~later)

\* Mutant: a paused tick leaves next_ping alone.
KeepNextPing(at, next) == next

\* next_ping = Instant::now() of a tick that finds the target paused
PausedNextPing(at, next) == at

\* ------------------------------------------------------------------------
\* ip_addresses.rs: u32 and u128 arithmetic on 16-bit limbs
\* ------------------------------------------------------------------------

Front(a) == SubSeq(a, 1, Len(a) - 1)

Zeros(n) == [i \in 1..n |-> 0]

Ones(n) == [i \in 1..n |-> LimbBase - 1]

RECURSIVE Pow2(_)
Pow2(n) == IF n = 0 THEN 1 ELSE 2 * Pow2(n - 1)

\* a < b, for numbers of the same width
RECURSIVE LimbLess(_, _)
LimbLess(a, b) ==
    /\ a # <<>>
    /\ \/ a[1] < b[1]
       \/ a[1] = b[1] /\ LimbLess(Tail(a), Tail(b))

\* a + 1 modulo the width
RECURSIVE WrappingInc(_)
WrappingInc(a) ==
    IF a = <<>> THEN <<>>
    ELSE IF a[Len(a)] < LimbBase - 1
         THEN [a EXCEPT ![Len(a)] = @ + 1]
         ELSE WrappingInc(Front(a)) \o <<0>>

\* a - 1 modulo the width
RECURSIVE WrappingDec(_)
WrappingDec(a) ==
    IF a = <<>> THEN <<>>
    ELSE IF a[Len(a)] > 0
         THEN [a EXCEPT ![Len(a)] = @ - 1]
         ELSE WrappingDec(Front(a)) \o <<LimbBase - 1>>

\* a - b for a >= b
RECURSIVE LimbSub(_, _)
LimbSub(a, b) ==
    IF a = <<>> THEN <<>>
    ELSE LET n == Len(a)
         IN  IF a[n] >= b[n]
             THEN LimbSub(Front(a), Front(b)) \o <<a[n] - b[n]>>
             ELSE LimbSub(Front(a), WrappingInc(Front(b)))
                      \o <<a[n] + LimbBase - b[n]>>

\* u128::saturating_add(1)
SaturatingInc(a) == IF a = Ones(Len(a)) THEN a ELSE WrappingInc(a)

\* count > 65536
OverMax(count) ==
    LimbLess(Zeros(Len(count) - 2) \o <<MaxExpansion \div LimbBase, 0>>,
             count)

\* ------------------------------------------------------------------------
\* ip_addresses.rs: parse_ip_or_range
\* ------------------------------------------------------------------------

\* IpAddr: the family and the address as a number.
V4(num) == [fam |-> "V4", num |-> num]

V6(num) == [fam |-> "V6", num |-> num]

\* Result<Vec<IpAddr>, String>.  The vector of an Ok is a run of consecutive
\* addresses, kept as its first and last address; a panic of the build with
\* overflow checks is a third outcome.
OkRun(fam, first, last) ==
    [kind |-> "ok", fam |-> fam, first |-> first, last |-> last]

Err(msg) == [kind |-> "err", msg |-> msg]

Panic == [kind |-> "panic"]

\* Mutant: a range given backwards is turned around.
generate_ip_range_either_way(start, end, overflow_checks) ==
    IF start.fam # end.fam THEN Err("version mismatch")
    ELSE LET lo == IF LimbLess(end.num, start.num) THEN end.num ELSE start.num
             hi == IF LimbLess(end.num, start.num) THEN start.num ELSE end.num
         IN  IF OverMax(SaturatingInc(LimbSub(hi, lo)))
             THEN Err("too large")
             ELSE OkRun(start.fam, lo, hi)

\* generate_ip_range.  end_num - start_num + 1 is computed in u32 for IPv4:
\* when it overflows, the build with overflow checks panics and the build
\* without them wraps to 0.  For IPv6 it saturates.
generate_ip_range(start, end, overflow_checks) ==
    IF start.fam # end.fam THEN Err("version mismatch")
    ELSE IF LimbLess(end.num, start.num) THEN Err("start greater than end")
    ELSE LET diff == LimbSub(end.num, start.num)
         IN  IF start.fam = "V4"
             THEN IF diff = Ones(V4Limbs) /\ overflow_checks
                  THEN Panic
                  ELSE IF OverMax(WrappingInc(diff))
                       THEN Err("too large")
                       ELSE OkRun("V4", start.num, end.num)
             ELSE IF OverMax(SaturatingInc(diff))
                  THEN Err("too large")
                  ELSE OkRun("V6", start.num, end.num)

\* parse_short_range_end: the last octet or the last segment of the start
\* address is replaced.
parse_short_range_end(start_ip, end_val) ==
    LET n    == Len(start_ip.num)
        last == start_ip.num[n]
    IN  IF start_ip.fam = "V4"
        THEN IF end_val > OctetMax THEN Err("octet")
             ELSE [kind |-> "ok",
                   ip |-> V4([start_ip.num EXCEPT
                                ![n] = (last - (last % (OctetMax + 1)))
                                           + end_val])]
        ELSE IF end_val > SegmentMax THEN Err("hextet")
             ELSE [kind |-> "ok",
                   ip |-> V6([start_ip.num EXCEPT ![n] = end_val])]

\* parse_ip_range, for an argument with one '-' whose first part is an
\* address: the short form ends in a number, the full form in an address.
parse_ip_range(arg, overflow_checks) ==
    IF arg.form = "short"
    THEN LET e == parse_short_range_end(arg.start, arg.end_val)
         IN  IF e.kind = "err" THEN e
             ELSE generate_ip_range(arg.start, e.ip, overflow_checks)
    ELSE IF arg.start.fam # arg.end.fam THEN Err("mix")
         ELSE generate_ip_range(arg.start, arg.end, overflow_checks)

\* Bits of limb i (from 1, the most significant) that lie after the prefix.
HostBits(prefix, i) ==
    Min2(LimbBits, Max2(0, i * LimbBits - prefix))

\* IpNet::network and IpNet::broadcast
Network(addr, prefix) ==
    [i \in DOMAIN addr |->
        addr[i] - (addr[i] % Pow2(HostBits(prefix, i)))]

Broadcast(addr, prefix) ==
    [i \in DOMAIN addr |->
        Network(addr, prefix)[i] + Pow2(HostBits(prefix, i)) - 1]

\* network.hosts().collect(): every address of an IPv6 network and of an
\* IPv4 network with a prefix of 31 or 32; the addresses between the
\* network and the broadcast address of any other IPv4 network.  It is
\* never empty: for /32 and /128 it is the address itself, which is also
\* what the fallback vec![network.addr()] holds.
Hosts(arg) ==
    LET net   == Network(arg.addr.num, arg.prefix)
        bcast == Broadcast(arg.addr.num, arg.prefix)
    IN  IF arg.addr.fam = "V4" /\ arg.prefix < V4Limbs * LimbBits - 1
        THEN OkRun("V4", WrappingInc(net), WrappingDec(bcast))
        ELSE OkRun(arg.addr.fam, net, bcast)

\* parse_ip_or_range: a single address, then a network, then a range.
parse_ip_or_range(arg, overflow_checks) ==
    IF arg.form = "single" THEN OkRun(arg.addr.fam, arg.addr.num, arg.addr.num)
    ELSE IF arg.form = "cidr" THEN Hosts(arg)
    ELSE IF arg.form \in {"short", "full"}
    THEN parse_ip_range(arg, overflow_checks)
    ELSE Err("invalid")

\* The number of addresses of a vector, one limb wider than an address.
VecLen(v) == WrappingInc(<<0>> \o LimbSub(v.last, v.first))

\* The addresses of a vector, in order.
RECURSIVE Collect(_, _)
Collect(first, last) ==
    IF first = last THEN <<first>>
    ELSE <<first>> \o Collect(WrappingInc(first), last)

\* ------------------------------------------------------------------------
\* args.rs: the target list of MpConfig::parse
\* ------------------------------------------------------------------------

\* The addresses of an Ok of parse_ip_or_range, in order.
Addrs(r) ==
    LET v == Collect(r.first, r.last)
    IN  [i \in DOMAIN v |-> [fam |-> r.fam, num |-> v[i]]]

\* The results of parse_ip_or_range for a list of specs.
Expansions(specs, overflow_checks) ==
    [i \in DOMAIN specs |-> parse_ip_or_range(specs[i], overflow_checks)]

\* all_addrs.append(&mut ips) for every target
RECURSIVE Appended(_)
Appended(results) ==
    IF results = <<>> THEN <<>>
    ELSE Addrs(Head(results)) \o Appended(Tail(results))

\* Mutant: of the occurrences of an address the last one is kept.
RECURSIVE RetainUnseenLast(_, _)
RetainUnseenLast(s, seen) ==
    IF s = <<>> THEN <<>>
    ELSE IF \E i \in 2..Len(s) : s[i] = Head(s)
         THEN RetainUnseenLast(Tail(s), seen)
         ELSE <<Head(s)>> \o RetainUnseenLast(Tail(s), seen)

\* all_addrs.retain(|ip| seen.insert(*ip))
RECURSIVE RetainUnseen(_, _)
RetainUnseen(s, seen) ==
    IF s = <<>> THEN <<>>
    ELSE IF Head(s) \in seen
         THEN RetainUnseen(Tail(s), seen)
         ELSE <<Head(s)>> \o RetainUnseen(Tail(s), seen \cup {Head(s)})

\* all_addrs.retain(|ip| !exclusions.contains(ip))
RetainNotExcluded(s, exclusions) ==
    SelectSeq(s, LAMBDA ip : ip \notin exclusions)

\* process::exit(1)
Exit1 == [kind |-> "exit", code |-> 1]

\* The target part of MpConfig::parse: config.addrs and whether the warning
\* was printed, or the exit.
parse_targets(cl, overflow_checks) ==
    LET tgts == Expansions(cl.targets, overflow_checks)
        excs == Expansions(cl.exclude, overflow_checks)
        all_addrs  == RetainUnseen(Appended(tgts), {})
        seen       == {all_addrs[i] : i \in DOMAIN all_addrs}
        exclusions == UNION {{Addrs(excs[i])[j] :
                                 j \in DOMAIN Addrs(excs[i])} :
                             i \in DOMAIN excs}
        remainder  == seen \ exclusions
        warn       == exclusions # {} /\ remainder = seen
        kept       == IF exclusions # {} /\ remainder # seen
                      THEN RetainNotExcluded(all_addrs, exclusions)
                      ELSE all_addrs
    IN  IF \E i \in DOMAIN tgts : tgts[i].kind # "ok" THEN Exit1
        ELSE IF \E i \in DOMAIN excs : excs[i].kind # "ok" THEN Exit1
        ELSE IF exclusions # {} /\ remainder # seen /\ remainder = {}
             THEN Exit1
        ELSE IF kept = <<>> THEN Exit1
        ELSE [kind |-> "ok", addrs |-> kept, warned |-> warn]

\* ------------------------------------------------------------------------
\* The snapshot of a target and the target's lock
\* ------------------------------------------------------------------------

\* HistorySnapshot::new_from (the RTT summary of the history is left out)
HistorySnapshotNewFrom(h) ==
    [start_seq |-> IF h.records = <<>> THEN 0 ELSE h.records[1].seq,
     end_seq   |-> IF h.records = <<>> THEN 0
                   ELSE h.records[Len(h.records)].seq,
     gaps_in_seqs      |-> gaps_in_seqs(h),
     last_out_of_order |-> last_out_of_order(h),
     recent_losses     |-> recent_losses(h, InspectWindow),
     loss_pct          |-> loss(h)]

\* StatsSnapshot::new_from
StatsSnapshotNewFrom(data) ==
    [sent  |-> data.sent,
     recv  |-> data.recv,
     rtt   |-> [mean_min_max |-> mean_min_max(data.rtts),
                last  |-> LatencyWindowLast(data.rtts),
                stdev |-> stdev(data.rtts)],
     error |-> data.status = "Error",
     hist  |-> HistorySnapshotNewFrom(data.recent)]

\* impl Display for PingStatus
StatusText(status) ==
    CASE status = "Ok" -> "OK"
      [] status = "Timeout" -> "timeout"
      [] status = "NotReachable" -> "unreachable"
      [] status = "Error" -> "error"
      [] status = "Laggy" -> "laggy"
      [] status = "Lossy" -> "lossy"
      [] status = "Flappy" -> "flapping"
      [] OTHER -> "-"

\* extract_stats: the snapshot and the status text
ExtractStats(data) ==
    [snap |-> StatsSnapshotNewFrom(data), text |-> StatusText(data.status)]

\* RwLock::write returns when nobody holds the lock.
CanWrite(held) == held = {}

\* Mutant: a reader does not wait for the writer.
CanReadAnyTime(held, writer_waits) == TRUE

\* RwLock::read returns when no writer holds the lock and none waits for it.
CanRead(held, writer_waits) ==
    /\ \A h \in held : h[3] = "r"
    /\ ~writer_waits

\* ------------------------------------------------------------------------
\* State
\* ------------------------------------------------------------------------

VARIABLES
    conf,        \* MpConfig after parse: interval, timeout (ms)
    now,         \* the clock (ms)
    quit,        \* the shared quit flag
    paused,      \* the target's paused flag
    stats,       \* PingTargetInner, behind the target's lock
    inflight,    \* the detached send tasks that have not applied a result
    pc,          \* ping_loop: "while", "tick", "woke", "send", "done"
    ticker,      \* deadline of the ticker's next tick
    next_ping,   \* ping_loop's next_ping
    engine,      \* main: "parse", "display", "join", "stats", "exited"
    applied,     \* history: number of update_ping_stats calls applied
    answered,    \* history: records pushed to recent with an RTT
    dropped,     \* history: send tasks dropped when the runtime shut down
    pauseSent,   \* history: Some(sent at the moment the flag was set)
    resumedAt,   \* history: Some(time the flag was cleared), until a ping
    quitSent,    \* history: Some(sent at the moment quit was set)
    quitTicks,   \* history: ticks the loop completed after quit was set
    lastUpdate,  \* history: the last update_ping_stats call
    toggles,     \* history: presses of the pause key
    quiet,       \* history: every result applied so far was a timeout
    sawPaused,   \* history: the loop found the flag set since it was set
    final,       \* history: the statistics main printed last
    fed,         \* history: the results the mock client has returned so far
    win,         \* a LatencyWindow on its own
    pushed,      \* history: the values pushed into win since new or clear
    clears,      \* history: the number of times win was cleared
    asked,       \* history: the capacity asked of LatencyWindow::new for win
    hist,        \* a PacketHistory on its own
    hlog,        \* history: the records pushed into hist
    req,         \* history: the <<interval, timeout>> requested (ms)
    arg,         \* the target spec given to parse_ip_or_range
    out,         \* Some(what parse_ip_or_range returned)
    cli,         \* the target specs and --exclude specs of the command line
    parsed,      \* Some(config.addrs and the warning, or the exit)
    held,        \* the target's lock: <<task, number, "r" or "w">> per holder
    tasks,       \* the send tasks, each with its stage
    dpc,         \* the display loop's position in gather_target_data
    shot,        \* the snapshot and status text extract_stats is building
    seenAt,      \* history: Some(the target when extract_stats got the lock)
    frames       \* history: the frames gathered

vars == <<conf, now, quit, paused, stats, inflight, pc, ticker, next_ping,
          engine, applied, answered, dropped, pauseSent, resumedAt, quitSent,
          quitTicks, lastUpdate, toggles, quiet, sawPaused, final,
          fed, win, pushed, clears, asked, hist, hlog, req, arg, out,
          cli, parsed, held, tasks, dpc, shot, seenAt, frames>>

\* The variables of the scenario harness and of the components on their own.
xvars == <<fed, win, pushed, clears, asked, hist, hlog, req, arg, out,
           cli, parsed, held, tasks, dpc, shot, seenAt, frames>>

\* The variables of target parsing and of the target's lock.
tvars == <<arg, out, cli, parsed, held, tasks, dpc, shot, seenAt, frames>>

\* No target spec is being parsed.
NoParse == arg = None /\ out = None /\ cli = None /\ parsed = None

\* The target's lock is not followed.
NoLocks ==
    /\ held = {}
    /\ tasks = {}
    /\ dpc = "idle"
    /\ shot = None
    /\ seenAt = None
    /\ frames = 0

hvars == <<applied, answered, dropped, pauseSent, resumedAt, quitSent,
           quitTicks,
           lastUpdate, toggles, quiet, sawPaused, final>>

Start ==
    /\ now = 0
    /\ quit = FALSE
    /\ paused = FALSE
    /\ stats = PingTargetNew(HistSize, Detailed)
    /\ inflight = {}
    /\ pc = "while"
    /\ ticker = 0
    /\ next_ping = 0
    /\ engine = "display"
    /\ applied = 0
    /\ answered = 0
    /\ dropped = 0
    /\ pauseSent = None
    /\ resumedAt = None
    /\ quitSent = None
    /\ quitTicks = 0
    /\ lastUpdate = None
    /\ toggles = 0
    /\ quiet = TRUE
    /\ sawPaused = FALSE
    /\ final = None
    /\ fed = <<>>
    /\ win = LatencyWindowNew(HistSize)
    /\ pushed = <<>>
    /\ clears = 0
    /\ asked = HistSize
    /\ hist = PacketHistoryNew(Detailed)
    /\ hlog = <<>>
    /\ NoParse
    /\ NoLocks

Init ==
    /\ req \in ReqConfigs
    /\ conf = ParseConfig(req[1], req[2])
    /\ Start

FairInit ==
    /\ req \in FairReqConfigs
    /\ conf = ParseConfig(req[1], req[2])
    /\ Start

\* ------------------------------------------------------------------------
\* ping_loop
\* ------------------------------------------------------------------------

TicksDone == ticker \div TickPeriod(conf)

TickBudget == IF quiet THEN MaxTicksQuiet ELSE MaxTicks

\* Mutant: the loop does not look at the quit flag.
LoopWhileNoQuit ==
    /\ pc = "while"
    /\ pc' = "tick"
    /\ UNCHANGED <<conf, now, quit, paused, stats, inflight, ticker,
                   next_ping, engine, hvars>>
    /\ UNCHANGED xvars

\* while !quit.load(Relaxed)
LoopWhile ==
    /\ pc = "while"
    /\ pc' = IF quit THEN "done" ELSE "tick"
    /\ UNCHANGED <<conf, now, quit, paused, stats, inflight, ticker,
                   next_ping, engine, hvars>>
    /\ UNCHANGED xvars

\* ticker.tick().await returns
LoopTick ==
    /\ pc = "tick"
    /\ now >= ticker
    /\ IF quit THEN quitTicks < MaxQuitTicks ELSE TicksDone < TickBudget
    /\ ticker' = ticker + TickPeriod(conf)
    /\ pc' = "woke"
    /\ quitTicks' = IF quit THEN quitTicks + 1 ELSE quitTicks
    /\ UNCHANGED <<conf, now, quit, paused, stats, inflight, next_ping,
                   engine, applied, answered, dropped, pauseSent, resumedAt,
                   quitSent,
                   lastUpdate, toggles, quiet, sawPaused, final>>
    /\ UNCHANGED xvars

\* the paused check and the due check
LoopCheck ==
    /\ pc = "woke"
    /\ \E later \in BOOLEAN :
          IF paused
          THEN next_ping' = PausedNextPing(now, next_ping) /\ pc' = "while"
          ELSE /\ next_ping' = next_ping
               /\ pc' = IF NotDue(now, next_ping, later)
                        THEN "while" ELSE "send"
    /\ sawPaused' = (sawPaused \/ paused)
    /\ UNCHANGED <<conf, now, quit, paused, stats, inflight, ticker,
                   engine, applied, answered, dropped, pauseSent, resumedAt,
                   quitSent,
                   quitTicks, lastUpdate, toggles, quiet, final>>
    /\ UNCHANGED xvars

\* the critical section, the spawn of the send task, next_ping += interval
LoopSend ==
    /\ pc = "send"
    /\ stats' = Dispatch(stats, now)
    /\ inflight' = inflight \cup
          {[rec      |-> PacketRecordNew(NextSeq(stats), now, stats.sent),
            deadline |-> now + conf.timeout]}
    /\ next_ping' = next_ping + conf.interval
    /\ pc' = "while"
    /\ resumedAt' = None
    /\ UNCHANGED <<conf, now, quit, paused, ticker, engine, applied, answered,
                   dropped, pauseSent, quitSent, quitTicks, lastUpdate,
                   toggles, quiet, sawPaused, final>>
    /\ UNCHANGED xvars

\* ------------------------------------------------------------------------
\* The detached send task: pinger.ping(..).await, then update_ping_stats
\* ------------------------------------------------------------------------

Complete(task, res) ==
    LET rec == [task.rec EXCEPT !.ord = applied]
        new == update_ping_stats(stats, paused, res, rec)
    IN  /\ stats' = new
        /\ inflight' = inflight \ {task}
        /\ applied' = applied + 1
        /\ answered' = LET recs == new.recent.records
                        IN  IF recs # <<>> /\ recs[Len(recs)].rtt # None
                            THEN answered + 1 ELSE answered
        /\ quiet' = (quiet /\ res.kind = "timeout")
        /\ lastUpdate' = Some([kind   |-> res.kind,
                               paused |-> paused,
                               sent   |-> stats.sent,
                               recv   |-> stats.recv,
                               mid    |-> ApplyResult(stats, res, rec).status,
                               status |-> new.status,
                               toggles |-> toggles])
        /\ UNCHANGED <<conf, now, quit, paused, pc, ticker, next_ping,
                       engine, dropped, pauseSent, resumedAt, quitSent,
                       quitTicks, toggles, sawPaused, final>>

\* Replies, errors and presses of the pause key are explored during the
\* first MaxTicks ticks; sends that end later time out.  A reply is applied
\* before the clock passes the instant its round trip ends.
Answering == TicksDone <= MaxTicks

SendReply ==
    \E task \in inflight, rtt \in Rtts :
        /\ Answering
        /\ now < task.deadline
        /\ rtt < conf.timeout * 1000
        /\ now * 1000 <= task.rec.sent * 1000 + rtt
        /\ Complete(task, Reply(rtt))
        /\ UNCHANGED xvars

SendTimeout ==
    \E task \in inflight :
        /\ now >= task.deadline
        /\ Complete(task, TimeoutErr)
        /\ UNCHANGED xvars

SendError ==
    \E task \in inflight :
        /\ Answering
        /\ now < task.deadline
        /\ Complete(task, OtherErr)
        /\ UNCHANGED xvars

\* ------------------------------------------------------------------------
\* The clock
\* ------------------------------------------------------------------------

Deadlines ==
    (IF pc = "tick" THEN {ticker} ELSE {})
        \cup {task.deadline : task \in inflight}

\* Time passes only while the loop waits for its tick (or has ended) and no
\* deadline is due; it passes to the next deadline.
Advance ==
    /\ engine # "exited"
    /\ pc \in {"tick", "done"}
    /\ Deadlines # {}
    /\ \A d \in Deadlines : d > now
    /\ now' = SetMin(Deadlines)
    /\ UNCHANGED <<conf, quit, paused, stats, inflight, pc, ticker,
                   next_ping, engine, hvars>>
    /\ UNCHANGED xvars

\* ------------------------------------------------------------------------
\* main: key events, signals, shutdown
\* ------------------------------------------------------------------------

SetQuit ==
    /\ quit' = TRUE
    /\ quitSent' = IF quit THEN quitSent ELSE Some(stats.sent)
    /\ resumedAt' = None
    /\ UNCHANGED <<conf, now, paused, stats, inflight, pc, ticker,
                   next_ping, engine, applied, answered, dropped, pauseSent,
                   quitTicks, lastUpdate, toggles, quiet, sawPaused, final>>
    /\ UNCHANGED xvars

\* key_event_poll: 'q' or ctrl-c
KeyQuit == engine = "display" /\ SetQuit

\* the signal thread: SIGINT, SIGTERM, SIGQUIT
Signal == engine # "exited" /\ SetQuit

\* The pause key.  Setting the flag makes the status Paused; clearing it
\* leaves the status to the next update.
TogglePause ==
    /\ engine = "display"
    /\ toggles < MaxToggles
    /\ Answering
    /\ toggles' = toggles + 1
    /\ paused' = ~paused
    /\ stats' = IF paused THEN stats ELSE [stats EXCEPT !.status = "Paused"]
    /\ pauseSent' = IF paused THEN None ELSE Some(stats.sent)
    /\ resumedAt' = IF paused /\ ~quit /\ pc # "done" THEN Some(now) ELSE None
    /\ UNCHANGED <<conf, now, quit, inflight, pc, ticker, next_ping, engine,
                   applied, answered, dropped, quitSent, quitTicks,
                   lastUpdate, quiet,
                   final>>
    /\ sawPaused' = (paused /\ sawPaused)
    /\ UNCHANGED xvars

\* while !quit.load(Relaxed) of the display loop fails
DisplayExit ==
    /\ engine = "display"
    /\ quit
    /\ engine' = "join"
    /\ UNCHANGED <<conf, now, quit, paused, stats, inflight, pc, ticker,
                   next_ping, hvars>>
    /\ UNCHANGED xvars

\* join_all(app.tasks).await: the tasks are the ping loops
JoinAll ==
    /\ engine = "join"
    /\ pc = "done"
    /\ engine' = "stats"
    /\ UNCHANGED <<conf, now, quit, paused, stats, inflight, pc, ticker,
                   next_ping, hvars>>
    /\ UNCHANGED xvars

\* The final statistics are printed and main returns: the runtime shuts
\* down and drops the send tasks that are still waiting.
FinalStats ==
    /\ engine = "stats"
    /\ engine' = "exited"
    /\ final' = Some([sent |-> stats.sent, recv |-> stats.recv,
                      status |-> stats.status])
    /\ dropped' = Cardinality(inflight)
    /\ inflight' = {}
    /\ UNCHANGED <<conf, now, quit, paused, stats, pc, ticker, next_ping,
                   applied, answered, pauseSent, resumedAt, quitSent, quitTicks,
                   lastUpdate, toggles, quiet, sawPaused>>
    /\ UNCHANGED xvars

Next ==
    \/ LoopWhile
    \/ LoopTick
    \/ LoopCheck
    \/ LoopSend
    \/ SendReply
    \/ SendTimeout
    \/ SendError
    \/ Advance
    \/ KeyQuit
    \/ Signal
    \/ TogglePause
    \/ DisplayExit
    \/ JoinAll
    \/ FinalStats

Spec == Init /\ [][Next]_vars

\* The runtime schedules every ready task and fires every due timer; key
\* presses and signals may never come.
FairSpec ==
    /\ FairInit
    /\ [][Next]_vars
    /\ WF_vars(LoopWhile)
    /\ WF_vars(LoopTick)
    /\ WF_vars(LoopCheck)
    /\ WF_vars(LoopSend)
    /\ WF_vars(SendTimeout)
    /\ WF_vars(Advance)
    /\ WF_vars(DisplayExit)
    /\ WF_vars(JoinAll)
    /\ WF_vars(FinalStats)

\* ------------------------------------------------------------------------
\* The scenario harness: one ping loop against a mock client that answers
\* each send before the next one is due
\* ------------------------------------------------------------------------

Rep(n, r) == [i \in 1..n |-> r]

IsPrefix(s, t) == Len(s) <= Len(t) /\ SubSeq(t, 1, Len(s)) = s

Results == {Reply(r) : r \in Rtts} \cup {TimeoutErr, OtherErr}

\* every send is answered with the same RTT
Steady == Rep(RunLen + 1, Reply(RttFast))

\* no send is ever answered
Silent == Rep(RunLen + 2, TimeoutErr)

\* runs of replies and of timeouts
Runs ==
    Rep(RunLen, Reply(RttFast)) \o Rep(RunLen, TimeoutErr)
        \o Rep(3, Reply(RttFast))

\* replies and timeouts one by one, then a transport error
Alternate ==
    [i \in 1..8 |-> IF i % 2 = 1 THEN Reply(RttFast) ELSE TimeoutErr]
        \o <<OtherErr>>

\* fast replies, a silence, then slow replies
Lagging ==
    Rep(6, Reply(RttFast)) \o Rep(7, TimeoutErr) \o Rep(3, Reply(RttSlow))

Scripts == {Steady, Silent, Runs, Alternate, Lagging}

\* The mock client may return res next: any result during the first MaxFree
\* updates, afterwards what one of the scripts says.
MayReturn(res) ==
    \/ Len(fed) < MaxFree
    \/ \E script \in Scripts : IsPrefix(Append(fed, res), script)

ScenarioInit ==
    /\ req = <<1000, 2000>>
    /\ conf = ParseConfig(req[1], req[2])
    /\ now = 0
    /\ quit = FALSE
    /\ paused = FALSE
    /\ stats = PingTargetNew(MinHistSize, MinDetailed)
    /\ inflight = {}
    /\ pc = "while"
    /\ ticker = 0
    /\ next_ping = 0
    /\ engine = "display"
    /\ applied = 0
    /\ answered = 0
    /\ dropped = 0
    /\ pauseSent = None
    /\ resumedAt = None
    /\ quitSent = None
    /\ quitTicks = 0
    /\ lastUpdate = None
    /\ toggles = 0
    /\ quiet = TRUE
    /\ sawPaused = FALSE
    /\ final = None
    /\ fed = <<>>
    /\ win = LatencyWindowNew(HistSize)
    /\ pushed = <<>>
    /\ clears = 0
    /\ asked = HistSize
    /\ hist = PacketHistoryNew(MinDetailed)
    /\ hlog = <<>>
    /\ NoParse
    /\ NoLocks

\* A due tick of the ping loop on a target that is not paused: the critical
\* section and the spawn of the send task.
MockSend ==
    /\ ~paused
    /\ inflight = {}
    /\ \E res \in Results : MayReturn(res)
    /\ stats' = Dispatch(stats, now)
    /\ inflight' =
          {[rec      |-> PacketRecordNew(NextSeq(stats), now, stats.sent),
            deadline |-> now + conf.timeout]}
    /\ next_ping' = next_ping + conf.interval
    /\ UNCHANGED <<conf, now, quit, paused, pc, ticker, engine, hvars,
                   xvars>>

\* The mock client answers; the send task applies the result.
MockReply ==
    \E task \in inflight, rtt \in Rtts :
        /\ MayReturn(Reply(rtt))
        /\ Complete(task, Reply(rtt))
        /\ fed' = Append(fed, Reply(rtt))
        /\ UNCHANGED <<win, pushed, clears, asked, hist, hlog, req, tvars>>

MockTimeout ==
    \E task \in inflight :
        /\ MayReturn(TimeoutErr)
        /\ Complete(task, TimeoutErr)
        /\ fed' = Append(fed, TimeoutErr)
        /\ UNCHANGED <<win, pushed, clears, asked, hist, hlog, req, tvars>>

MockError ==
    \E task \in inflight :
        /\ MayReturn(OtherErr)
        /\ Complete(task, OtherErr)
        /\ fed' = Append(fed, OtherErr)
        /\ UNCHANGED <<win, pushed, clears, asked, hist, hlog, req, tvars>>

ScenarioNext ==
    \/ MockSend
    \/ MockReply
    \/ MockTimeout
    \/ MockError
    \/ TogglePause

ScenarioSpec == ScenarioInit /\ [][ScenarioNext]_vars

\* ------------------------------------------------------------------------
\* The scenario harness on a target that has never answered, shortly before
\* its sequence numbers wrap
\* ------------------------------------------------------------------------

\* The statistics of a target, never paused, after k > 10 pings that have
\* all timed out, one at a time.
SilentStats(k) ==
    [sent |-> k, recv |-> 0,
     last_seq |-> (k - 1) % SeqModulus, last_sent |-> Some(0),
     rtts |-> LatencyWindowNew(MinHistSize),
     recent |->
        [capacity |-> MinDetailed,
         records  |->
            [i \in 1..MinDetailed |->
                [seq  |-> (k - MinDetailed + i - 1) % SeqModulus,
                 sent |-> 0, rtt |-> None,
                 n    |-> k - MinDetailed + i - 1,
                 ord  |-> k - MinDetailed + i - 1]]],
     status |-> "NotReachable"]

\* The pings sent before the harness takes over.
SeqStart == SeqModulus - 2

\* fed logs the results returned from here on.
SeqInit ==
    /\ req = <<1000, 2000>>
    /\ conf = ParseConfig(req[1], req[2])
    /\ now = 0
    /\ quit = FALSE
    /\ paused = FALSE
    /\ stats = SilentStats(SeqStart)
    /\ inflight = {}
    /\ pc = "while"
    /\ ticker = 0
    /\ next_ping = SeqStart * conf.interval
    /\ engine = "display"
    /\ applied = SeqStart
    /\ answered = 0
    /\ dropped = 0
    /\ pauseSent = None
    /\ resumedAt = None
    /\ quitSent = None
    /\ quitTicks = 0
    /\ lastUpdate = Some([kind   |-> "timeout",
                          paused |-> FALSE,
                          sent   |-> SeqStart,
                          recv   |-> 0,
                          mid    |-> "NotReachable",
                          status |-> "NotReachable",
                          toggles |-> 0])
    /\ toggles = 0
    /\ quiet = TRUE
    /\ sawPaused = FALSE
    /\ final = None
    /\ fed = <<>>
    /\ win = LatencyWindowNew(HistSize)
    /\ pushed = <<>>
    /\ clears = 0
    /\ asked = HistSize
    /\ hist = PacketHistoryNew(MinDetailed)
    /\ hlog = <<>>
    /\ NoParse
    /\ NoLocks

SeqSpec == SeqInit /\ [][ScenarioNext]_vars

\* ------------------------------------------------------------------------
\* The LatencyWindow on its own
\* ------------------------------------------------------------------------

\* Capacities asked of LatencyWindow::new and the values pushed.
WinCaps == {0, 1, 2, 3, 4}

WinVals == {10, 20, 30}

WinInit ==
    /\ req = <<1000, 2000>>
    /\ conf = ParseConfig(req[1], req[2])
    /\ now = 0
    /\ quit = FALSE
    /\ paused = FALSE
    /\ stats = PingTargetNew(MinHistSize, MinDetailed)
    /\ inflight = {}
    /\ pc = "while"
    /\ ticker = 0
    /\ next_ping = 0
    /\ engine = "display"
    /\ applied = 0
    /\ answered = 0
    /\ dropped = 0
    /\ pauseSent = None
    /\ resumedAt = None
    /\ quitSent = None
    /\ quitTicks = 0
    /\ lastUpdate = None
    /\ toggles = 0
    /\ quiet = TRUE
    /\ sawPaused = FALSE
    /\ final = None
    /\ fed = <<>>
    /\ asked \in WinCaps
    /\ win = LatencyWindowNew(asked)
    /\ pushed = <<>>
    /\ clears = 0
    /\ hist = PacketHistoryNew(MinDetailed)
    /\ hlog = <<>>
    /\ NoParse
    /\ NoLocks

WinPush ==
    \E val \in WinVals :
        /\ Len(pushed) < MaxPushes
        /\ win' = LatencyWindowPush(win, val)
        /\ pushed' = Append(pushed, val)
        /\ UNCHANGED <<conf, now, quit, paused, stats, inflight, pc, ticker,
                       next_ping, engine, hvars, fed, clears, asked, hist, hlog,
                       req, tvars>>

WinClear ==
    /\ clears < MaxClears
    /\ win' = LatencyWindowClear(win)
    /\ pushed' = <<>>
    /\ clears' = clears + 1
    /\ UNCHANGED <<conf, now, quit, paused, stats, inflight, pc, ticker,
                   next_ping, engine, hvars, fed, asked, hist, hlog, req,
                   tvars>>

WinNext ==
    \/ WinPush
    \/ WinClear

WinSpec == WinInit /\ [][WinNext]_vars

\* ------------------------------------------------------------------------
\* The PacketHistory on its own
\* ------------------------------------------------------------------------

\* Capacities given to PacketHistory::new.
HistCaps == {0, 1, 3}

\* What a record pushed may hold: no RTT, or one of the RTTs.
RecordRtts == {None} \cup {Some(r) : r \in Rtts}

HistInit ==
    /\ req = <<1000, 2000>>
    /\ conf = ParseConfig(req[1], req[2])
    /\ now = 0
    /\ quit = FALSE
    /\ paused = FALSE
    /\ stats = PingTargetNew(MinHistSize, MinDetailed)
    /\ inflight = {}
    /\ pc = "while"
    /\ ticker = 0
    /\ next_ping = 0
    /\ engine = "display"
    /\ applied = 0
    /\ answered = 0
    /\ dropped = 0
    /\ pauseSent = None
    /\ resumedAt = None
    /\ quitSent = None
    /\ quitTicks = 0
    /\ lastUpdate = None
    /\ toggles = 0
    /\ quiet = TRUE
    /\ sawPaused = FALSE
    /\ final = None
    /\ fed = <<>>
    /\ asked = MinHistSize
    /\ win = LatencyWindowNew(asked)
    /\ pushed = <<>>
    /\ clears = 0
    /\ hist \in {PacketHistoryNew(c) : c \in HistCaps}
    /\ hlog = <<>>
    /\ NoParse
    /\ NoLocks

\* PacketHistory::push of a record numbered by the count of pushes so far.
HistPush ==
    \E rtt \in RecordRtts :
        LET n   == Len(hlog)
            rec == [PacketRecordNew(n % SeqModulus, now, n) EXCEPT !.rtt = rtt]
        IN  /\ n < MaxRecords
            /\ hist' = PacketHistoryPush(hist, rec)
            /\ hlog' = Append(hlog, rec)
            /\ UNCHANGED <<conf, now, quit, paused, stats, inflight, pc,
                           ticker, next_ping, engine, hvars, fed, win,
                           pushed, clears, asked, req, tvars>>

HistNext == HistPush

HistSpec == HistInit /\ [][HistNext]_vars

\* ------------------------------------------------------------------------
\* MpConfig::parse on its own
\* ------------------------------------------------------------------------

\* Intervals and timeouts asked for on the command line (ms).
ReqIntervals == {0, 9, 10, 11, 1000, 1250, 10000, 10001, 30000}

ReqTimeouts == {0, 9, 10, 39, 40, 41, 45, 2000, 4999, 5000, 5001, 60000}

\* main before MpConfig::parse has applied the clamps: conf holds what was
\* asked for.
ConfInit ==
    /\ req \in ReqIntervals \X ReqTimeouts
    /\ conf = [interval |-> req[1], timeout |-> req[2]]
    /\ now = 0
    /\ quit = FALSE
    /\ paused = FALSE
    /\ stats = PingTargetNew(MinHistSize, MinDetailed)
    /\ inflight = {}
    /\ pc = "while"
    /\ ticker = 0
    /\ next_ping = 0
    /\ engine = "parse"
    /\ applied = 0
    /\ answered = 0
    /\ dropped = 0
    /\ pauseSent = None
    /\ resumedAt = None
    /\ quitSent = None
    /\ quitTicks = 0
    /\ lastUpdate = None
    /\ toggles = 0
    /\ quiet = TRUE
    /\ sawPaused = FALSE
    /\ final = None
    /\ fed = <<>>
    /\ asked = MinHistSize
    /\ win = LatencyWindowNew(asked)
    /\ pushed = <<>>
    /\ clears = 0
    /\ hist = PacketHistoryNew(MinDetailed)
    /\ hlog = <<>>
    /\ NoParse
    /\ NoLocks

\* The clamps of MpConfig::parse.
ConfParse ==
    /\ engine = "parse"
    /\ conf' = ParseConfig(conf.interval, conf.timeout)
    /\ engine' = "display"
    /\ UNCHANGED <<now, quit, paused, stats, inflight, pc, ticker,
                   next_ping, hvars, xvars>>

ConfNext == ConfParse

ConfSpec == ConfInit /\ [][ConfNext]_vars

\* ------------------------------------------------------------------------
\* parse_ip_or_range on its own
\* ------------------------------------------------------------------------

\* The addresses of the target specs that are explored: 0.0.0.0, 10.0.0.0,
\* 10.0.0.1, 10.0.0.5, 10.0.255.255, 10.1.0.0 and 255.255.255.255; ::, ::1,
\* ::5, ::ffff, ::1:0 and ffff:ffff:ffff:ffff:ffff:ffff:ffff:ffff.
SpecAddrs ==
    {V4(<<0, 0>>), V4(<<2560, 0>>), V4(<<2560, 1>>), V4(<<2560, 5>>),
     V4(<<2560, 65535>>), V4(<<2561, 0>>), V4(<<65535, 65535>>)}
    \cup {V6(Zeros(V6Limbs)), V6(Zeros(V6Limbs - 1) \o <<1>>),
          V6(Zeros(V6Limbs - 1) \o <<5>>),
          V6(Zeros(V6Limbs - 1) \o <<65535>>),
          V6(Zeros(V6Limbs - 2) \o <<1, 0>>), V6(Ones(V6Limbs))}

\* The numbers that end a short range.
SpecEnds == {0, 3, 5, 255, 256, 65535, 65536}

\* The prefix lengths of the networks.
SpecPrefixes == {0, 15, 16, 30, 31, 32, 111, 112, 126, 128}

\* The target specs: single addresses, networks, short and full ranges, and
\* a string that is none of them.
TargetSpecs ==
    {[form |-> "single", addr |-> a] : a \in SpecAddrs}
    \cup UNION {{[form |-> "cidr", addr |-> a, prefix |-> p] :
                     p \in {q \in SpecPrefixes : q <= Len(a.num) * LimbBits}} :
                 a \in SpecAddrs}
    \cup {[form |-> "short", start |-> a, end_val |-> e] :
             a \in SpecAddrs, e \in SpecEnds}
    \cup {[form |-> "full", start |-> a, end |-> b] :
             a \in SpecAddrs, b \in SpecAddrs}
    \cup {[form |-> "other"]}

IpInit ==
    /\ req = <<1000, 2000>>
    /\ conf = [interval |-> req[1], timeout |-> req[2]]
    /\ now = 0
    /\ quit = FALSE
    /\ paused = FALSE
    /\ stats = PingTargetNew(MinHistSize, MinDetailed)
    /\ inflight = {}
    /\ pc = "while"
    /\ ticker = 0
    /\ next_ping = 0
    /\ engine = "parse"
    /\ applied = 0
    /\ answered = 0
    /\ dropped = 0
    /\ pauseSent = None
    /\ resumedAt = None
    /\ quitSent = None
    /\ quitTicks = 0
    /\ lastUpdate = None
    /\ toggles = 0
    /\ quiet = TRUE
    /\ sawPaused = FALSE
    /\ final = None
    /\ fed = <<>>
    /\ asked = MinHistSize
    /\ win = LatencyWindowNew(asked)
    /\ pushed = <<>>
    /\ clears = 0
    /\ hist = PacketHistoryNew(MinDetailed)
    /\ hlog = <<>>
    /\ arg \in TargetSpecs
    /\ out = None
    /\ cli = None
    /\ parsed = None
    /\ NoLocks

\* parse_ip_or_range(arg), in a build with or without overflow checks
IpParse ==
    /\ out = None
    /\ \E overflow_checks \in BOOLEAN :
          out' = Some(parse_ip_or_range(arg, overflow_checks))
    /\ UNCHANGED <<conf, now, quit, paused, stats, inflight, pc, ticker,
                   next_ping, engine, hvars>>
    /\ UNCHANGED <<fed, win, pushed, clears, asked, hist, hlog, req, arg,
                   cli, parsed, held, tasks, dpc, shot, seenAt, frames>>

IpNext == IpParse

IpSpec == IpInit /\ [][IpNext]_vars

\* ------------------------------------------------------------------------
\* The target list of MpConfig::parse on its own
\* ------------------------------------------------------------------------

\* The sequences over S of lo to hi elements.
SeqsUpTo(S, lo, hi) == UNION {[1..n -> S] : n \in lo..hi}

\* The target specs of the command lines that are explored: 10.0.0.1,
\* 10.0.0.5, 10.0.0.1-3, 10.0.0.3-10.0.0.5, 10.0.0.1/30, ::1 and the
\* backward range 10.0.0.5-3.
CliTargets ==
    {[form |-> "single", addr |-> V4(<<2560, 1>>)],
     [form |-> "single", addr |-> V4(<<2560, 5>>)],
     [form |-> "short", start |-> V4(<<2560, 1>>), end_val |-> 3],
     [form |-> "full", start |-> V4(<<2560, 3>>), end |-> V4(<<2560, 5>>)],
     [form |-> "cidr", addr |-> V4(<<2560, 1>>), prefix |-> 30],
     [form |-> "single", addr |-> V6(Zeros(V6Limbs - 1) \o <<1>>)],
     [form |-> "short", start |-> V4(<<2560, 5>>), end_val |-> 3]}

\* The --exclude specs: 10.0.0.1, 10.0.0.2-5, 10.0.0.1-5, 10.0.0.7, ::1 and
\* a string that is no spec.
CliExcludes ==
    {[form |-> "single", addr |-> V4(<<2560, 1>>)],
     [form |-> "short", start |-> V4(<<2560, 2>>), end_val |-> 5],
     [form |-> "short", start |-> V4(<<2560, 1>>), end_val |-> 5],
     [form |-> "single", addr |-> V4(<<2560, 7>>)],
     [form |-> "single", addr |-> V6(Zeros(V6Limbs - 1) \o <<1>>)],
     [form |-> "other"]}

CliInit ==
    /\ req = <<1000, 2000>>
    /\ conf = [interval |-> req[1], timeout |-> req[2]]
    /\ now = 0
    /\ quit = FALSE
    /\ paused = FALSE
    /\ stats = PingTargetNew(MinHistSize, MinDetailed)
    /\ inflight = {}
    /\ pc = "while"
    /\ ticker = 0
    /\ next_ping = 0
    /\ engine = "parse"
    /\ applied = 0
    /\ answered = 0
    /\ dropped = 0
    /\ pauseSent = None
    /\ resumedAt = None
    /\ quitSent = None
    /\ quitTicks = 0
    /\ lastUpdate = None
    /\ toggles = 0
    /\ quiet = TRUE
    /\ sawPaused = FALSE
    /\ final = None
    /\ fed = <<>>
    /\ asked = MinHistSize
    /\ win = LatencyWindowNew(asked)
    /\ pushed = <<>>
    /\ clears = 0
    /\ hist = PacketHistoryNew(MinDetailed)
    /\ hlog = <<>>
    /\ arg = None
    /\ out = None
    /\ cli \in [targets : SeqsUpTo(CliTargets, 1, MaxTargets),
                 exclude : SeqsUpTo(CliExcludes, 0, MaxExcludes)]
    /\ parsed = None
    /\ NoLocks

\* MpConfig::parse, up to config.addrs
CliParse ==
    /\ parsed = None
    /\ \E overflow_checks \in BOOLEAN :
          parsed' = Some(parse_targets(cli, overflow_checks))
    /\ UNCHANGED <<conf, now, quit, paused, stats, inflight, pc, ticker,
                   next_ping, engine, hvars>>
    /\ UNCHANGED <<fed, win, pushed, clears, asked, hist, hlog, req, arg,
                   out, cli, held, tasks, dpc, shot, seenAt, frames>>

CliNext == CliParse

CliSpec == CliInit /\ [][CliNext]_vars

\* ------------------------------------------------------------------------
\* The target's lock: ping_loop, the send tasks and the display loop, step
\* by step
\* ------------------------------------------------------------------------

LockInit ==
    /\ req = <<1000, 2000>>
    /\ conf = ParseConfig(req[1], req[2])
    /\ now = 0
    /\ quit = FALSE
    /\ paused = FALSE
    /\ stats = PingTargetNew(HistSize, Detailed)
    /\ inflight = {}
    /\ pc = "tick"
    /\ ticker = 0
    /\ next_ping = 0
    /\ engine = "display"
    /\ applied = 0
    /\ answered = 0
    /\ dropped = 0
    /\ pauseSent = None
    /\ resumedAt = None
    /\ quitSent = None
    /\ quitTicks = 0
    /\ lastUpdate = None
    /\ toggles = 0
    /\ quiet = TRUE
    /\ sawPaused = FALSE
    /\ final = None
    /\ fed = <<>>
    /\ asked = MinHistSize
    /\ win = LatencyWindowNew(asked)
    /\ pushed = <<>>
    /\ clears = 0
    /\ hist = PacketHistoryNew(MinDetailed)
    /\ hlog = <<>>
    /\ NoParse
    /\ NoLocks

\* What the steps below leave alone.
lrest == <<conf, now, quit, paused, inflight, ticker, next_ping, engine,
           dropped, pauseSent, resumedAt, quitSent, quitTicks, lastUpdate,
           toggles, quiet, sawPaused, final, fed, win, pushed, clears, asked,
           hist, hlog, req, arg, out, cli, parsed>>

dvars == <<dpc, shot, seenAt, frames>>

\* A writer is blocked in RwLock::write.
WriterWaits == pc = "lock" \/ \E t \in tasks : t.stage = "lock"

\* ping_loop: ticker.tick().await returns, the target is not paused and a
\* ping is due; the loop goes on to tgt.data.write().
LkTick ==
    /\ pc = "tick"
    /\ stats.sent < MaxLockSends
    /\ pc' = "lock"
    /\ UNCHANGED <<stats, applied, answered, held, tasks, dvars, lrest>>

\* ping_loop: tgt.data.write() returns
LkLoopLock ==
    /\ pc = "lock"
    /\ CanWrite(held)
    /\ held' = {<<"loop", 0, "w">>}
    /\ pc' = "count"
    /\ UNCHANGED <<stats, applied, answered, tasks, dvars, lrest>>

\* ping_loop: stats.sent += 1
LkLoopCount ==
    /\ pc = "count"
    /\ stats' = [stats EXCEPT !.sent = @ + 1]
    /\ pc' = "stamp"
    /\ UNCHANGED <<applied, answered, held, tasks, dvars, lrest>>

\* ping_loop: stats.last_seq = seq; stats.last_sent = Some(now)
LkLoopStamp ==
    /\ pc = "stamp"
    /\ stats' = [stats EXCEPT !.last_seq = (stats.sent - 1) % SeqModulus,
                              !.last_sent = Some(now)]
    /\ pc' = "unlock"
    /\ UNCHANGED <<applied, answered, held, tasks, dvars, lrest>>

\* Mutant: the write guard lives on while the loop awaits the pinger.
LkLoopUnlockLate ==
    /\ pc = "unlock"
    /\ pc' = "pinger"
    /\ UNCHANGED <<stats, applied, answered, held, tasks, dvars, lrest>>

\* ping_loop: the block of the write guard ends; client.pinger(..).await
LkLoopUnlock ==
    /\ pc = "unlock"
    /\ held' = held \ {<<"loop", 0, "w">>}
    /\ pc' = "pinger"
    /\ UNCHANGED <<stats, applied, answered, tasks, dvars, lrest>>

\* ping_loop: the pinger is there; tokio::spawn of the send task, which
\* awaits pinger.ping(..)
LkLoopSpawn ==
    /\ pc = "pinger"
    /\ tasks' = tasks \cup
          {[rec   |-> PacketRecordNew(stats.last_seq, now, stats.sent - 1),
            stage |-> "ping",
            res   |-> TimeoutErr]}
    /\ pc' = "tick"
    /\ UNCHANGED <<stats, applied, answered, held, dvars, lrest>>

\* The send task t moves to stage, the other tasks stay.
Staged(t, stage) == (tasks \ {t}) \cup {[t EXCEPT !.stage = stage]}

\* send task: pinger.ping(..).await returns; update_ping_stats goes on to
\* tgt.data.write()
LkSendResult ==
    \E t \in tasks, res \in {Reply(RttFast), TimeoutErr} :
        /\ t.stage = "ping"
        /\ tasks' = (tasks \ {t}) \cup
                        {[t EXCEPT !.stage = "lock", !.res = res]}
        /\ UNCHANGED <<pc, stats, applied, answered, held, dvars, lrest>>

\* update_ping_stats: tgt.data.write() returns
LkSendLock ==
    \E t \in tasks :
        /\ t.stage = "lock"
        /\ CanWrite(held)
        /\ held' = {<<"send", t.rec.n, "w">>}
        /\ tasks' = Staged(t, IF t.res.kind = "reply" THEN "recv"
                              ELSE "status")
        /\ UNCHANGED <<pc, stats, applied, answered, dvars, lrest>>

\* update_ping_stats: stats.recv += 1
LkSendRecv ==
    \E t \in tasks :
        /\ t.stage = "recv"
        /\ stats' = [stats EXCEPT !.recv = @ + 1]
        /\ tasks' = Staged(t, "rtts")
        /\ UNCHANGED <<pc, applied, answered, held, dvars, lrest>>

\* update_ping_stats: stats.rtts.push(..)
LkSendRtts ==
    \E t \in tasks :
        /\ t.stage = "rtts"
        /\ stats' = [stats EXCEPT !.rtts = LatencyWindowPush(@, t.res.rtt)]
        /\ tasks' = Staged(t, "status")
        /\ UNCHANGED <<pc, applied, answered, held, dvars, lrest>>

\* update_ping_stats: stats.status = ..
LkSendStatus ==
    \E t \in tasks :
        /\ t.stage = "status"
        /\ stats' = [stats EXCEPT !.status =
                        IF t.res.kind = "reply" THEN "Ok"
                        ELSE IF t.res.kind = "timeout"
                             THEN TimeoutStatus(stats)
                             ELSE "Error"]
        /\ tasks' = Staged(t, "record")
        /\ UNCHANGED <<pc, applied, answered, held, dvars, lrest>>

\* update_ping_stats: rec.set_rtt(dur) of a reply; stats.recent.push(rec)
LkSendRecord ==
    \E t \in tasks :
        /\ t.stage = "record"
        /\ LET rec == [t.rec EXCEPT !.ord = applied]
           IN  stats' = [stats EXCEPT !.recent =
                           PacketHistoryPush(@,
                               IF t.res.kind = "reply"
                               THEN set_rtt(rec, t.res.rtt) ELSE rec)]
        /\ applied' = applied + 1
        /\ answered' = IF t.res.kind = "reply" THEN answered + 1
                       ELSE answered
        /\ tasks' = Staged(t, "classify")
        /\ UNCHANGED <<pc, held, dvars, lrest>>

\* update_ping_stats: the paused override and the classification
LkSendClassify ==
    \E t \in tasks :
        /\ t.stage = "classify"
        /\ LET override == [stats EXCEPT
                               !.status = PausedOverride(@, paused)]
           IN  stats' = [override EXCEPT !.status = Classify(override)]
        /\ tasks' = Staged(t, "unlock")
        /\ UNCHANGED <<pc, applied, answered, held, dvars, lrest>>

\* update_ping_stats returns: the write guard is dropped, the task ends
LkSendUnlock ==
    \E t \in tasks :
        /\ t.stage = "unlock"
        /\ held' = held \ {<<"send", t.rec.n, "w">>}
        /\ tasks' = tasks \ {t}
        /\ UNCHANGED <<pc, stats, applied, answered, dvars, lrest>>

\* display loop: the next frame; gather_target_data polls extract_stats,
\* which goes on to tgt.data.read()
LkFrame ==
    /\ dpc = "idle"
    /\ frames < MaxFrames
    /\ dpc' = "read"
    /\ shot' = None
    /\ UNCHANGED <<pc, stats, applied, answered, held, tasks, seenAt,
                   frames, lrest>>

\* extract_stats: tgt.data.read() returns
LkSnapLock ==
    /\ dpc = "read"
    /\ CanRead(held, WriterWaits)
    /\ held' = held \cup {<<"display", 0, "r">>}
    /\ seenAt' = Some(stats)
    /\ shot' = Some([sent |-> None, recv |-> None, rtt |-> None,
                     error |-> None, hist |-> None, text |-> None])
    /\ dpc' = "counts"
    /\ UNCHANGED <<pc, stats, applied, answered, tasks, frames, lrest>>

\* StatsSnapshot::new_from: sent and recv
LkSnapCounts ==
    /\ dpc = "counts"
    /\ shot' = Some([shot[1] EXCEPT
                        !.sent = Some(StatsSnapshotNewFrom(stats).sent),
                        !.recv = Some(StatsSnapshotNewFrom(stats).recv)])
    /\ dpc' = "rtts"
    /\ UNCHANGED <<pc, stats, applied, answered, held, tasks, seenAt,
                   frames, lrest>>

\* StatsSnapshot::new_from: mean, min, max, last and stdev of the window
LkSnapRtts ==
    /\ dpc = "rtts"
    /\ shot' = Some([shot[1] EXCEPT
                        !.rtt = Some(StatsSnapshotNewFrom(stats).rtt)])
    /\ dpc' = "hist"
    /\ UNCHANGED <<pc, stats, applied, answered, held, tasks, seenAt,
                   frames, lrest>>

\* StatsSnapshot::new_from: the error and the summary of the history
LkSnapHist ==
    /\ dpc = "hist"
    /\ shot' = Some([shot[1] EXCEPT
                        !.error = Some(StatsSnapshotNewFrom(stats).error),
                        !.hist = Some(StatsSnapshotNewFrom(stats).hist)])
    /\ dpc' = "text"
    /\ UNCHANGED <<pc, stats, applied, answered, held, tasks, seenAt,
                   frames, lrest>>

\* extract_stats: format!("{}", stats.status)
LkSnapText ==
    /\ dpc = "text"
    /\ shot' = Some([shot[1] EXCEPT !.text = Some(StatusText(stats.status))])
    /\ dpc' = "unlock"
    /\ UNCHANGED <<pc, stats, applied, answered, held, tasks, seenAt,
                   frames, lrest>>

\* extract_stats returns: the read guard is dropped; the row is formatted
LkSnapUnlock ==
    /\ dpc = "unlock"
    /\ held' = held \ {<<"display", 0, "r">>}
    /\ dpc' = "row"
    /\ UNCHANGED <<pc, stats, applied, answered, tasks, shot, seenAt,
                   frames, lrest>>

\* gather_target_data: the target is not paused; match t.data.read().status
\* takes the read lock for the style of the row
LkStyleLock ==
    /\ dpc = "row"
    /\ CanRead(held, WriterWaits)
    /\ held' = held \cup {<<"display", 0, "r">>}
    /\ dpc' = "style"
    /\ UNCHANGED <<pc, stats, applied, answered, tasks, shot, seenAt,
                   frames, lrest>>

\* gather_target_data: the match ends and the read guard is dropped; the
\* frame is drawn and the display loop awaits the next one
LkStyleUnlock ==
    /\ dpc = "style"
    /\ held' = held \ {<<"display", 0, "r">>}
    /\ dpc' = "idle"
    /\ frames' = frames + 1
    /\ UNCHANGED <<pc, stats, applied, answered, tasks, shot, seenAt, lrest>>

LkLoop ==
    \/ LkTick
    \/ LkLoopLock
    \/ LkLoopCount
    \/ LkLoopStamp
    \/ LkLoopUnlock
    \/ LkLoopSpawn

LkSend ==
    \/ LkSendResult
    \/ LkSendLock
    \/ LkSendRecv
    \/ LkSendRtts
    \/ LkSendStatus
    \/ LkSendRecord
    \/ LkSendClassify
    \/ LkSendUnlock

LkDisplay ==
    \/ LkFrame
    \/ LkSnapLock
    \/ LkSnapCounts
    \/ LkSnapRtts
    \/ LkSnapHist
    \/ LkSnapText
    \/ LkSnapUnlock
    \/ LkStyleLock
    \/ LkStyleUnlock

LockNext == LkLoop \/ LkSend \/ LkDisplay

LockSpec == LockInit /\ [][LockNext]_vars

\* A task that can run does run: the workers of the runtime poll the tasks
\* that are ready, and a thread that holds a lock is running.
LockFairSpec ==
    /\ LockInit
    /\ [][LockNext]_vars
    /\ WF_vars(LkLoop)
    /\ WF_vars(LkSend)
    /\ WF_vars(LkDisplay)

TypeOK ==
    /\ stats.status \in PingStatus
    /\ pc \in {"while", "tick", "woke", "send", "done"}
    /\ engine \in {"display", "join", "stats", "exited"}
    /\ stats.recv \in Nat /\ stats.sent \in Nat
    /\ applied + Cardinality(inflight) + dropped = stats.sent

\* ------------------------------------------------------------------------
\* Properties
\* ------------------------------------------------------------------------

Records == stats.recent.records

\* C1: recv <= sent in every state, and every record of the history belongs
\* to a ping whose increment of sent has already happened.
C1_RecvLeSent ==
    /\ stats.recv <= stats.sent
    /\ \A i \in DOMAIN Records : Records[i].n < stats.sent

\* C1 witness: every ping sent so far has been answered.
C1_Witness == stats.sent >= 2 /\ stats.recv = stats.sent

\* C2 as claimed: at most 4 sends of the target are in flight.
C2_InFlightAtMost4 == Cardinality(inflight) <= 4

\* C3 as claimed: sent keeps the value it had when the paused flag was set.
C3_PausedSentFrozen == pauseSent # None => stats.sent = pauseSent[1]

C5_PausedStatus == paused => stats.status = "Paused"

\* C5 witness: a reply was applied while the flag was set.
C5_Witness ==
    /\ paused
    /\ lastUpdate # None
    /\ lastUpdate[1].paused
    /\ lastUpdate[1].kind = "reply"

\* C6 as claimed: once quit is set, sent is never incremented again.
C6_NoPingAfterQuit == quitSent # None => stats.sent = quitSent[1]

\* C7: once quit is set the ping loop ends and the engine's join returns;
\* the loop completes at most one tick after quit was set; quit is never
\* cleared.
C7_QuitDrains ==
    /\ quit ~> (pc = "done" /\ engine \in {"stats", "exited"})
    /\ [](quitTicks <= 1)
    /\ [][quit => quit']_vars

\* C7 witness: the engine has shut down and the loop took one tick after
\* quit was set.
C7_Witness == engine = "exited" /\ quitTicks = 1

\* C8 as claimed: when the engine has shut down, every dispatched send has
\* applied its update and none was dropped.
C8_ShutdownAfterDrain ==
    engine = "exited" => dropped = 0 /\ applied = stats.sent

\* C9 as claimed: the history is in the order in which the pings were
\* dispatched.
C9_HistorySendOrder ==
    \A i, j \in DOMAIN Records : i < j => Records[i].n < Records[j].n

\* C9 amended: the history is in the order in which the results were applied
\* by update_ping_stats; it is in send order only when the results are
\* applied in send order.
C9_HistoryUpdateOrder ==
    \A i, j \in DOMAIN Records : i < j => Records[i].ord < Records[j].ord

\* C9 witness: a later ping's record precedes an earlier ping's record.
C9_Witness ==
    \E i, j \in DOMAIN Records : i < j /\ Records[i].n > Records[j].n

\* C10: on a target that is not paused, the status before classification is
\* Ok after a reply, NotReachable after a timeout with sent > 10 and
\* recv = 0, Timeout after any other timeout, Error after another error.
C10_StatusBeforeClassification ==
    lastUpdate # None /\ ~lastUpdate[1].paused =>
        LET u == lastUpdate[1]
        IN  u.mid = CASE u.kind = "reply" -> "Ok"
                      [] u.kind = "timeout" /\ u.sent > 10 /\ u.recv = 0
                            -> "NotReachable"
                      [] u.kind = "timeout" /\ ~(u.sent > 10 /\ u.recv = 0)
                            -> "Timeout"
                      [] OTHER -> "Error"

\* C10 witness: a timeout was applied after more than ten pings, none of
\* them answered.
C10_Witness ==
    /\ lastUpdate # None
    /\ ~lastUpdate[1].paused
    /\ lastUpdate[1].kind = "timeout"
    /\ lastUpdate[1].sent > 10
    /\ stats.status = "NotReachable"

\* C17: an update applied while the paused flag is not set leaves a status
\* other than Paused, the one its result and the classifier give; after the
\* flag has been cleared the status is Paused until the next update and the
\* status of that update afterwards.
C17_ResumeOnNextUpdate ==
    /\ lastUpdate # None /\ ~lastUpdate[1].paused =>
          lastUpdate[1].status \in
              CASE lastUpdate[1].kind = "reply"
                     -> {"Ok", "Flappy", "Lossy", "Laggy"}
                [] lastUpdate[1].kind = "timeout"
                     -> {"Timeout", "NotReachable", "Flappy", "Lossy", "Laggy"}
                [] OTHER -> {"Error"}
    /\ ~paused /\ toggles > 0
               /\ (lastUpdate = None \/ lastUpdate[1].toggles < toggles) =>
          stats.status = "Paused"
    /\ ~paused /\ lastUpdate # None /\ lastUpdate[1].toggles = toggles =>
          stats.status = lastUpdate[1].status /\ stats.status # "Paused"

\* C17 witness: the flag was set and cleared, and an update applied after
\* that has replaced Paused.
C17_Witness ==
    /\ ~paused
    /\ toggles = 2
    /\ lastUpdate # None
    /\ lastUpdate[1].toggles = 2
    /\ stats.status \in {"Ok", "Timeout", "Error"}

\* ------------------------------------------------------------------------
\* Properties of the classifier, over the scenario harness
\* ------------------------------------------------------------------------

\* Records among the last k of the history that have no RTT.
Lost(k) ==
    Cardinality({i \in DOMAIN Records :
                    i > Len(Records) - k /\ Records[i].rtt = None})

\* Adjacent pairs among the last k records of which exactly one has an RTT.
Flips(k) ==
    Cardinality({i \in DOMAIN Records :
                    /\ i > Len(Records) - k
                    /\ i < Len(Records)
                    /\ (Records[i].rtt = None) # (Records[i + 1].rtt = None)})

\* C11: after an update on a target that is not paused whose status before
\* classification is Ok or Timeout, the status is Flappy if at least 5 of
\* the adjacent pairs of the last 10 records differ; otherwise Lossy if at
\* least 3 of the last 5 records have no RTT; otherwise Laggy if the laggy
\* condition holds; otherwise the status before classification.
C11_ClassifierCascade ==
    lastUpdate # None /\ ~lastUpdate[1].paused
                      /\ lastUpdate[1].mid \in {"Ok", "Timeout"} =>
        lastUpdate[1].status =
            IF Flips(10) >= 5 THEN "Flappy"
            ELSE IF Lost(5) >= 3 THEN "Lossy"
            ELSE IF is_laggy(stats, 10, 2) = Some(TRUE) THEN "Laggy"
            ELSE lastUpdate[1].mid

\* C11 witness: the flappy and the lossy condition both hold after an update
\* and the status is Flappy.
C11_Witness ==
    /\ lastUpdate # None
    /\ ~lastUpdate[1].paused
    /\ lastUpdate[1].mid \in {"Ok", "Timeout"}
    /\ Flips(10) >= 5
    /\ Lost(5) >= 3
    /\ lastUpdate[1].status = "Flappy"

\* C12: an update leaves Paused when the paused flag is set; otherwise Error
\* after a transport error and NotReachable after a timeout with sent > 10
\* and recv = 0; it leaves Lossy, Laggy or Flappy only when the status
\* before classification is Ok or Timeout and the flag is not set.
C12_ClassifierOnlyOkTimeout ==
    lastUpdate # None =>
        LET u == lastUpdate[1]
        IN  /\ u.paused => u.status = "Paused"
            /\ ~u.paused /\ u.kind = "error" => u.status = "Error"
            /\ ~u.paused /\ u.kind = "timeout" /\ u.sent > 10 /\ u.recv = 0
                  => u.status = "NotReachable"
            /\ u.status \in {"Lossy", "Laggy", "Flappy"}
                  => u.mid \in {"Ok", "Timeout"} /\ ~u.paused

\* C12 witness: a transport error was applied to a history whose last 10
\* records make the flappy and the lossy condition hold.
C12_Witness ==
    /\ lastUpdate # None
    /\ ~lastUpdate[1].paused
    /\ lastUpdate[1].kind = "error"
    /\ Flips(10) >= 5
    /\ Lost(5) >= 3
    /\ lastUpdate[1].status = "Error"

\* The records among the last 10 of the history (all of them when it holds
\* fewer) that have an RTT.
RecentAnswered ==
    {i \in DOMAIN Records : i > Len(Records) - 10 /\ Records[i].rtt # None}

\* The laggy condition as stated: the mean RTT of those records is greater
\* than 2.0 x the mean of the rolling window.
StatedLaggy ==
    LET total == SeqSum([i \in DOMAIN Records |->
                           IF i \in RecentAnswered
                           THEN Records[i].rtt[1] ELSE 0])
    IN  /\ RecentAnswered # {}
        /\ (total \div Cardinality(RecentAnswered)) * stats.rtts.len
              > 2 * stats.rtts.sum

\* C13: is_laggy(10, 2.0) is Ok(true) exactly when the stated condition
\* holds; when no record among the last 10 has an RTT it is not Ok(true) and
\* the update still leaves a status, which is not Laggy.
C13_LaggyCondition ==
    /\ (is_laggy(stats, 10, 2) = Some(TRUE)) <=> StatedLaggy
    /\ RecentAnswered = {} =>
          /\ is_laggy(stats, 10, 2) # Some(TRUE)
          /\ lastUpdate # None =>
                lastUpdate[1].status \in PingStatus \ {"Laggy"}
    /\ lastUpdate # None /\ lastUpdate[1].status = "Laggy" => StatedLaggy

\* C13 witness: an update left Laggy, and the last 10 records hold timeouts
\* as well as replies.
C13_Witness ==
    /\ lastUpdate # None
    /\ lastUpdate[1].status = "Laggy"
    /\ Len(Records) >= 10
    /\ Lost(10) > 0
    /\ StatedLaggy

\* Every result so far was a timeout.
AllTimeouts == \A i \in DOMAIN fed : fed[i].kind = "timeout"

\* C14 as claimed: when every send times out, every timeout applied while
\* sent > 10 leaves NotReachable, and once 11 pings have been sent and have
\* timed out recv = 0 and the status is NotReachable.
C14_SilentNotReachable ==
    /\ AllTimeouts /\ lastUpdate # None /\ lastUpdate[1].sent > 10 =>
          lastUpdate[1].status = "NotReachable"
    /\ AllTimeouts /\ Len(fed) >= 11 /\ inflight = {} =>
          stats.recv = 0 /\ stats.status = "NotReachable"

\* C14 amended: when every send times out, every timeout applied while
\* sent > 10 and the paused flag is not set leaves NotReachable; on a target
\* that is never paused, once 11 pings have been sent and have timed out
\* recv = 0 and the status is NotReachable.
C14_SilentNotReachableUnpaused ==
    /\ AllTimeouts /\ lastUpdate # None /\ lastUpdate[1].sent > 10
                   /\ ~lastUpdate[1].paused =>
          lastUpdate[1].status = "NotReachable"
    /\ AllTimeouts /\ Len(fed) >= 11 /\ inflight = {} /\ toggles = 0 =>
          stats.recv = 0 /\ stats.status = "NotReachable"

\* C14 witness: 11 pings were sent to a target that was never paused and
\* all of them have timed out.
C14_Witness ==
    /\ AllTimeouts
    /\ Len(fed) >= 11
    /\ stats.sent = Len(fed)
    /\ toggles = 0
    /\ stats.status = "NotReachable"

\* C15 as claimed: on a target that is never paused, when the results have
\* arrived as a run of 10 replies followed by a run of 10 timeouts, at least
\* 5 adjacent pairs of the last 10 records differ and the status is Flappy.
C15_RunsFlappy ==
    toggles = 0 /\ fed = SubSeq(Runs, 1, 2 * RunLen) =>
        Flips(10) >= 5 /\ stats.status = "Flappy"

\* C15 amended: on a target that is never paused, while the results arrive
\* as runs of 10 replies and 10 timeouts at most 1 adjacent pair of the last
\* 10 records differs and the status is never Flappy (it is Lossy whenever at
\* least 3 of the last 5 records have no RTT); when replies and timeouts
\* alternate one by one, from the sixth result on at least 5 pairs differ
\* and the status is Flappy.
C15_RunsNeverFlappy ==
    /\ toggles = 0 /\ IsPrefix(fed, Runs) =>
          /\ Flips(10) <= 1
          /\ stats.status # "Flappy"
          /\ lastUpdate # None /\ Lost(5) >= 3 => stats.status = "Lossy"
    /\ toggles = 0 /\ IsPrefix(fed, SubSeq(Alternate, 1, 8)) /\ Len(fed) >= 6 =>
          Flips(10) >= 5 /\ stats.status = "Flappy"

\* C15 witness: a run of 10 replies and a run of 10 timeouts have arrived on
\* a target that was never paused.
C15_Witness ==
    /\ toggles = 0
    /\ fed = SubSeq(Runs, 1, 2 * RunLen)
    /\ Flips(10) = 0
    /\ stats.status = "Lossy"

\* Every result so far was a reply, all with the same RTT.
SameReplies ==
    \A i \in DOMAIN fed : fed[i].kind = "reply" /\ fed[i].rtt = fed[1].rtt

\* C16: on a target that is never paused and whose every send is answered
\* with the same RTT, recv = sent once no send is in flight, the status is
\* Ok from the first reply on, and after 10 sends sent = recv = 10.
C16_SteadyOk ==
    toggles = 0 /\ SameReplies =>
        /\ inflight = {} => stats.recv = stats.sent
        /\ Len(fed) >= 1 => stats.status = "Ok"
        /\ inflight = {} /\ stats.sent = 10 => stats.recv = 10

\* C16 witness: 10 sends, all answered with the same RTT.
C16_Witness ==
    /\ toggles = 0
    /\ SameReplies
    /\ inflight = {}
    /\ stats.sent = 10
    /\ stats.recv = 10
    /\ stats.status = "Ok"

\* ------------------------------------------------------------------------
\* Properties of the LatencyWindow
\* ------------------------------------------------------------------------

\* The last min(pushes, cap) values pushed, oldest first.
Live ==
    SubSeq(pushed, Len(pushed) - Min2(Len(pushed), win.cap) + 1, Len(pushed))

LiveSet == {Live[i] : i \in DOMAIN Live}

\* The newest k values pushed.
Newest(k) == SubSeq(pushed, Len(pushed) - k + 1, Len(pushed))

SumSq(s) == SeqSum([i \in DOMAIN s |-> s[i] * s[i]])

\* C18: mean_min_max fails on an empty window and otherwise returns sum/len,
\* the minimum and the maximum of the last min(pushes, cap) values pushed.
C18_MeanMinMax ==
    IF pushed = <<>>
    THEN mean_min_max(win) = None
    ELSE mean_min_max(win) =
            Some([mean |-> <<SeqSum(Live), Len(Live)>>,
                  min  |-> CHOOSE x \in LiveSet : \A y \in LiveSet : x <= y,
                  max  |-> CHOOSE x \in LiveSet : \A y \in LiveSet : x >= y])

\* C18 witness: the window has evicted the smallest value pushed so far, and
\* a value it holds was pushed more than once.
C18_Witness ==
    /\ Len(pushed) > win.cap
    /\ \A i \in DOMAIN Live : pushed[1] < Live[i]
    /\ \E i, j \in DOMAIN Live : i # j /\ Live[i] = Live[j]

C20_StdevN ==
    \A n \in 0..(win.cap + 1) :
        IF pushed = <<>> THEN stdev_n(win, n) = None
        ELSE IF n = 1 THEN stdev_n(win, n) = Some(<<0, 1>>)
        ELSE IF n = 0 \/ n > Len(Live) THEN stdev_n(win, n) = None
        ELSE /\ stdev_n(win, n) # None
             /\ LET r == stdev_n(win, n)[1]
                     l == Newest(n)
                 IN  /\ r[2] > 0
                     /\ r[1] * n * (n - 1)
                           = r[2] * (n * SumSq(l) - SeqSum(l) * SeqSum(l))

\* C20 witness: the ring has wrapped and the newest two values differ.
C20_Witness ==
    /\ Len(pushed) > win.cap
    /\ win.head # 0
    /\ stdev_n(win, 2) # None
    /\ stdev_n(win, 2)[1][1] > 0
    /\ stdev_n(win, win.len + 1) = None

\* C21: the capacity of the window is max(asked, 3) in every state, and its
\* len is the number of pushes since new or the last clear, capped by the
\* capacity.
C21_CapacityAndLen ==
    /\ win.cap = Max2(asked, MIN_WINDOW_SIZE)
    /\ win.len = Min2(Len(pushed), win.cap)
    /\ win.len <= win.cap
    /\ Len(win.buf) = win.cap

\* C21 witness: a window asked for with a capacity below 3 has been pushed
\* into more often than it holds, after a clear.
C21_Witness ==
    /\ asked < MIN_WINDOW_SIZE
    /\ clears > 0
    /\ Len(pushed) > win.cap

\* The entries of a deque are samples of the live window.
InLiveWindow(q) ==
    \A i \in DOMAIN q :
        /\ q[i][2] >= Len(pushed) - win.cap
        /\ q[i][2] < Len(pushed)
        /\ q[i][1] = pushed[q[i][2] + 1]

\* C22: after every push the entries of both deques are samples of the live
\* window, the min-queue is non-decreasing and the max-queue non-increasing
\* from front to back, and the fronts are the minimum and the maximum of
\* the live window.
C22_MonotonicDeques ==
    pushed # <<>> =>
        /\ InLiveWindow(win.minq)
        /\ InLiveWindow(win.maxq)
        /\ \A i \in 1..(Len(win.minq) - 1) :
              win.minq[i][1] <= win.minq[i + 1][1]
        /\ \A i \in 1..(Len(win.maxq) - 1) :
              win.maxq[i][1] >= win.maxq[i + 1][1]
        /\ win.minq # <<>> /\ win.maxq # <<>>
        /\ \A x \in LiveSet : Head(win.minq)[1] <= x /\ x <= Head(win.maxq)[1]
        /\ Head(win.minq)[1] \in LiveSet
        /\ Head(win.maxq)[1] \in LiveSet

\* C22 witness: the largest value pushed has been evicted, and both deques
\* hold more than one entry.
C22_Witness ==
    /\ Len(pushed) > win.cap
    /\ \A x \in LiveSet : x < pushed[1]
    /\ Len(win.minq) > 1
    /\ Len(win.maxq) > 1

\* C23: last() returns the value of the most recent push, and last(),
\* variance(), stdev() and mean_min_max() fail on an empty window.
C23_LastAndEmpty ==
    IF pushed = <<>>
    THEN /\ LatencyWindowLast(win) = None
         /\ variance(win) = None
         /\ stdev(win) = None
         /\ mean_min_max(win) = None
    ELSE LatencyWindowLast(win) = Some(pushed[Len(pushed)])

\* C23 witness: the ring has wrapped and the latest sample differs from the
\* one before it and from the oldest one the ring holds.
C23_Witness ==
    /\ Len(pushed) > win.cap
    /\ win.head # 0
    /\ pushed[Len(pushed)] # pushed[Len(pushed) - 1]
    /\ pushed[Len(pushed)] # Live[1]

RECURSIVE PushAll(_, _)
PushAll(w, s) ==
    IF s = <<>> THEN w ELSE PushAll(LatencyWindowPush(w, Head(s)), Tail(s))

\* C24: after a clear the window has the capacity it had, and len, last,
\* mean/min/max and variance are those of a new window of that capacity
\* after the same pushes; with no push since the clear every query fails.
C24_ClearIsNew ==
    clears > 0 =>
        LET fresh == PushAll(LatencyWindowNew(asked), pushed)
        IN  /\ win.cap = fresh.cap
            /\ win.len = fresh.len
            /\ LatencyWindowLast(win) = LatencyWindowLast(fresh)
            /\ mean_min_max(win) = mean_min_max(fresh)
            /\ variance(win) = variance(fresh)
            /\ pushed = <<>> =>
                  /\ win.len = 0
                  /\ LatencyWindowLast(win) = None
                  /\ mean_min_max(win) = None
                  /\ variance(win) = None
                  /\ stdev(win) = None

\* C24 witness: one value has been pushed since the clear.
C24_Witness ==
    /\ clears > 0
    /\ Len(pushed) = 1
    /\ variance(win) = Some(<<0, 1>>)

\* ------------------------------------------------------------------------
\* Properties of the PacketHistory
\* ------------------------------------------------------------------------

Considered(h, n) ==
    (Len(h.records) - Min2(n, Len(h.records)) + 1)..Len(h.records)

\* C26: recent_transitions(n) is the number of adjacent pairs with
\* differing has-RTT flags among the last min(n, len) records, and
\* recent_losses(n) the number of records without RTT among them.
C26_TransitionsAndLosses ==
    \A n \in 0..(MaxRecords + 1) :
        LET recs == hist.records
            at   == Considered(hist, n)
        IN  /\ recent_transitions(hist, n) =
                  Cardinality({i \in at : /\ i + 1 \in at
                                          /\ has_response(recs[i])
                                                # has_response(recs[i + 1])})
            /\ recent_losses(hist, n) =
                  Cardinality({i \in at : recs[i].rtt = None})
            /\ Cardinality(at) < 2 => recent_transitions(hist, n) = 0

\* C26 witness: a full history that has evicted a record; n = 4 exceeds its
\* length, and its newest two records have fewer transitions and losses
\* than all of them.
C26_Witness ==
    /\ hist.capacity = 3
    /\ Len(hlog) > 3
    /\ recent_transitions(hist, 2) = 1
    /\ recent_transitions(hist, 4) = 2
    /\ recent_losses(hist, 2) = 1
    /\ recent_losses(hist, 4) = 2

\* The average, in whole microseconds, of the RTTs of the records of recs.
AverageRtt(recs) ==
    LET idx == {i \in DOMAIN recs : recs[i].rtt # None}
    IN  IF idx = {} THEN None
        ELSE Some(SeqSum([i \in DOMAIN recs |->
                            IF i \in idx THEN recs[i].rtt[1] ELSE 0])
                     \div Cardinality(idx))

\* C27: mean(None) is the average of all RTTs of the history; mean(Some(n)),
\* for every n >= 1, is the average of the RTTs among the newest min(n, len)
\* records; each fails only when there is no RTT to average.
C27_Mean ==
    /\ PacketHistoryMeanAll(hist) = AverageRtt(hist.records)
    /\ \A n \in 1..(MaxRecords + 1) :
          PacketHistoryMeanN(hist, n) =
              AverageRtt(SubSeq(hist.records,
                                Len(hist.records)
                                    - Min2(n, Len(hist.records)) + 1,
                                Len(hist.records)))

\* The results, in the order they were applied, whose records the target's
\* history holds.
HeldResults ==
    SubSeq(fed, Len(fed) - Len(stats.recent.records) + 1, Len(fed))

\* C28: loss() is the fraction of the records of the history that have no
\* RTT: 0 for an empty history, within [0, 1], 1 exactly when no record has
\* an RTT; the records of timeouts and of transport errors count alike.
C28_Loss ==
    LET recs == stats.recent.records
        l    == loss(stats.recent)
    IN  /\ Len(recs) = Min2(Len(fed), stats.recent.capacity)
        /\ recs = <<>> => l = <<0, 1>>
        /\ recs # <<>> =>
              /\ l[2] = Len(recs)
              /\ l[1] = Cardinality({i \in DOMAIN HeldResults :
                                        HeldResults[i].kind # "reply"})
              /\ 0 <= l[1] /\ l[1] <= l[2]
              /\ l[1] = l[2] <=> \A i \in DOMAIN recs : recs[i].rtt = None

\* C28 witness: the history holds the records of a reply, of a timeout and
\* of a transport error, and loss() is 2/3.
C28_Witness ==
    /\ Len(stats.recent.records) = 3
    /\ \E i, j \in DOMAIN HeldResults :
          HeldResults[i].kind = "timeout" /\ HeldResults[j].kind = "error"
    /\ loss(stats.recent) = <<2, 3>>

\* ------------------------------------------------------------------------
\* Properties of the configuration
\* ------------------------------------------------------------------------

\* C29: once the clamps have been applied, 10 ms <= interval <= 10 s,
\* 10 ms <= timeout <= 5 s and timeout <= 4 x interval; an interval asked
\* for within its range is left as it was, and so is a timeout asked for
\* within its range and no larger than 4 x interval.
C29_ClampedConfig ==
    engine # "parse" =>
        /\ MinDurationMs <= conf.interval /\ conf.interval <= MaxIntervalMs
        /\ MinDurationMs <= conf.timeout /\ conf.timeout <= MaxTimeoutMs
        /\ conf.timeout <= PendingLimit * conf.interval
        /\ (MinDurationMs <= req[1] /\ req[1] <= MaxIntervalMs)
              => conf.interval = req[1]
        /\ (/\ MinDurationMs <= req[2] /\ req[2] <= MaxTimeoutMs
            /\ req[2] <= PendingLimit * conf.interval)
              => conf.timeout = req[2]

\* C29 witness: the interval asked for was raised to 10 ms, and the timeout
\* asked for, within its own range, was limited to 4 x that.
C29_Witness ==
    /\ engine = "display"
    /\ req[1] < MinDurationMs
    /\ req[2] <= MaxTimeoutMs
    /\ conf.interval = MinDurationMs
    /\ conf.timeout = PendingLimit * MinDurationMs
    /\ conf.timeout < req[2]

\* ------------------------------------------------------------------------
\* Properties of the sequence numbers
\* ------------------------------------------------------------------------

\* In the scenario harness, a target that was never paused and whose k > 10
\* pings have all timed out is in the state SilentStats(k).
SilentClosedForm ==
    (/\ Len(fed) > NotReachableAfter
     /\ fed = Rep(Len(fed), TimeoutErr)
     /\ toggles = 0
     /\ inflight = {})
        => /\ stats = SilentStats(Len(fed))
           /\ applied = Len(fed)
           /\ next_ping = Len(fed) * conf.interval
           /\ quiet
           /\ lastUpdate = Some([kind   |-> "timeout",
                                 paused |-> FALSE,
                                 sent   |-> Len(fed),
                                 recv   |-> 0,
                                 mid    |-> "NotReachable",
                                 status |-> "NotReachable",
                                 toggles |-> 0])

\* The records of the pings dispatched and not yet aged out, oldest first:
\* those of the history, then the one in flight.
Dispatched ==
    stats.recent.records
        \o (IF inflight = {} THEN <<>>
            ELSE <<(CHOOSE task \in inflight : TRUE).rec>>)

SeqNumbered ==
    /\ stats.sent > 0 => stats.last_seq = (stats.sent - 1) % SeqModulus
    /\ \A i \in DOMAIN Dispatched :
          /\ Dispatched[i].seq = Dispatched[i].n % SeqModulus
          /\ Dispatched[i].n < stats.sent
    /\ \A i \in 1..(Len(Dispatched) - 1) :
          /\ Dispatched[i + 1].n = Dispatched[i].n + 1
          /\ Dispatched[i + 1].seq = (Dispatched[i].seq + 1) % SeqModulus
          /\ Dispatched[i].seq = SeqModulus - 1 => Dispatched[i + 1].seq = 0

SeqStep ==
    \/ /\ stats'.sent = stats.sent
       /\ stats'.last_seq = stats.last_seq
    \/ /\ stats'.sent = stats.sent + 1
       /\ stats'.last_seq = stats.sent % SeqModulus

\* C30: a dispatch takes sent mod 65536 as the sequence number and adds 1 to
\* sent in the same step; after every dispatch last_seq = (sent - 1) mod
\* 65536, consecutive dispatches carry consecutive sequence numbers modulo
\* 65536 (0 after 65535), and no two dispatches read the same sent.
C30_SequenceNumbers == [](SeqNumbered) /\ [][SeqStep]_vars

\* C30 witness: the ping numbered 0 has followed the one numbered 65535,
\* and a third one is in flight.
C30_Witness ==
    /\ stats.sent = SeqModulus + 1
    /\ stats.last_seq = 0
    /\ inflight # {}
    /\ \E i \in 1..(Len(Dispatched) - 1) :
          Dispatched[i].seq = SeqModulus - 1 /\ Dispatched[i + 1].seq = 0

\* The records of the history were pushed in send order, with consecutive
\* sequence numbers modulo 65536.
InSendOrder(h) ==
    \A i \in 1..(Len(h.records) - 1) :
        /\ h.records[i + 1].n = h.records[i].n + 1
        /\ h.records[i + 1].seq = (h.records[i].seq + 1) % SeqModulus

\* C40: for a history whose records were pushed in send order with
\* consecutive sequence numbers modulo 65536, the snapshot reports neither
\* a gap nor an out-of-order last pair, also when the last pair spans the
\* wrap from 65535 to 0.
C40_NoGapNoDisorder ==
    InSendOrder(stats.recent) =>
        /\ ~gaps_in_seqs(stats.recent)
        /\ ~last_out_of_order(stats.recent)

\* C38: a target whose status is NotReachable has never answered and has
\* been sent more than 10 pings; a target that has answered once is never
\* NotReachable.
C38_NotReachableNeverAnswered ==
    /\ stats.status = "NotReachable" =>
          stats.recv = 0 /\ stats.sent > NotReachableAfter
    /\ stats.recv > 0 => stats.status # "NotReachable"

\* C38 witness: a timeout has been applied to a target that has answered
\* before and has been sent more than 10 pings.
C38_Witness ==
    /\ lastUpdate # None
    /\ lastUpdate[1].kind = "timeout"
    /\ lastUpdate[1].recv > 0
    /\ lastUpdate[1].sent > NotReachableAfter
    /\ lastUpdate[1].mid = "Timeout"
    /\ ~lastUpdate[1].paused

\* ------------------------------------------------------------------------
\* Properties of an update
\* ------------------------------------------------------------------------

\* What a step that applies an update does to the target.
UpdateFrame ==
    LET old   == stats.recent.records
        new   == stats'.recent.records
        rec   == new[Len(new)]
        reply == lastUpdate'[1].kind = "reply"
    IN  /\ stats'.sent = stats.sent
        /\ stats'.last_seq = stats.last_seq
        /\ stats'.last_sent = stats.last_sent
        /\ new # <<>>
        /\ SubSeq(new, 1, Len(new) - 1) =
              IF Len(old) = stats.recent.capacity THEN Tail(old) ELSE old
        /\ reply =>
              /\ stats'.recv = stats.recv + 1
              /\ rec.rtt # None
              /\ stats'.rtts = LatencyWindowPush(stats.rtts, rec.rtt[1])
              /\ stats'.rtts.index = stats.rtts.index + 1
              /\ LatencyWindowLast(stats'.rtts) = rec.rtt
        /\ ~reply =>
              /\ stats'.recv = stats.recv
              /\ rec.rtt = None
              /\ stats'.rtts = stats.rtts

\* C36: an update for a timeout or a transport error leaves recv and the
\* RTT window as they were; every update pushes exactly one record and
\* leaves sent and last_seq alone; a reply adds 1 to recv and pushes one RTT
\* sample.
C36_UpdateFrame == [][applied' = applied + 1 => UpdateFrame]_vars

\* C36 witness: a timeout has been applied to a target that had answered
\* before and whose history was full.
C36_Witness ==
    /\ lastUpdate # None
    /\ lastUpdate[1].kind = "timeout"
    /\ stats.recv > 0
    /\ stats.rtts.len = stats.recv
    /\ applied > stats.recent.capacity

\* ------------------------------------------------------------------------
\* The counters of a target
\* ------------------------------------------------------------------------

\* The sends that have been dispatched and whose update has not been
\* applied: the send tasks that wait for their result and the ones the
\* runtime dropped at shutdown, which never apply theirs.
Unapplied == Cardinality(inflight) + dropped

\* The counters agree with the number of updates applied, of sends in
\* flight and of records pushed with an RTT.
Counters ==
    /\ stats.rtts.len = Min2(stats.recv, stats.rtts.cap)
    /\ Len(stats.recent.records) = Min2(applied, stats.recent.capacity)
    /\ stats.sent = applied + Unapplied
    /\ answered = stats.recv

\* C37 as claimed: in every state of a target rtts.len = min(recv, rtts.cap),
\* recent.len = min(updates applied, recent.cap), sent = updates applied +
\* sends in flight, the records ever pushed with an RTT are recv in number,
\* and the status is None exactly when no update has been applied.
C37_CountersAndNone ==
    /\ Counters
    /\ stats.status = "None" <=> applied = 0

\* C37 amended: the same, with the status None exactly when no update has
\* been applied and the pause key has not been pressed.
C37_CountersAndNoneUnpaused ==
    /\ Counters
    /\ stats.status = "None" <=> (applied = 0 /\ toggles = 0)

\* C37 witness: the window is full and more updates have been applied than
\* the history holds, one of them without an RTT.
C37_Witness ==
    /\ stats.recv = stats.rtts.cap
    /\ applied > stats.recent.capacity
    /\ answered < applied

\* ------------------------------------------------------------------------
\* The cadence of a target that is never paused, with late ticks
\* ------------------------------------------------------------------------

\* The runtime is busy: the clock passes the ticker's deadline, by up to
\* MaxLate periods, before ticker.tick().await returns.  The ticks that were
\* missed then fire at once, one per iteration of the loop (the ticker of
\* time::interval bursts by default).  Late wake-ups are explored for the
\* first MaxLate ticks.
Late ==
    /\ pc = "tick"
    /\ ~quit
    /\ TicksDone < MaxLate
    /\ \E d \in 1..MaxLate :
          /\ ticker + d * TickPeriod(conf) > now
          /\ now' = ticker + d * TickPeriod(conf)
    /\ UNCHANGED <<conf, quit, paused, stats, inflight, pc, ticker,
                   next_ping, engine, hvars>>
    /\ UNCHANGED xvars

CadNext ==
    \/ LoopWhile
    \/ LoopTick
    \/ LoopCheck
    \/ LoopSend
    \/ SendTimeout
    \/ Advance
    \/ Late

CadSpec == Init /\ [][CadNext]_vars

\* Every record of a ping dispatched and not yet evicted from the history.
Known == {task.rec : task \in inflight}
            \cup {stats.recent.records[i] : i \in DOMAIN stats.recent.records}

\* C39: the loop starts at time 0.  The k-th dispatch (k >= 0) is not before
\* k x interval, so at most floor(now / interval) + 1 pings have been sent;
\* at most one ping is dispatched per tick; a step dispatches at most one
\* ping, and the scheduled time of the next one is sent x interval.
C39_Cadence ==
    /\ [](toggles = 0 =>
            /\ \A rec \in Known : rec.sent >= rec.n * conf.interval
            /\ stats.sent <= now \div conf.interval + 1
            /\ stats.sent + (IF pc = "send" THEN 1 ELSE 0) <= TicksDone
            /\ next_ping = stats.sent * conf.interval)
    /\ [][toggles = 0 /\ stats'.sent # stats.sent =>
            /\ stats'.sent = stats.sent + 1
            /\ pc = "send"
            /\ now >= stats.sent * conf.interval]_vars

\* C39 witness: the loop was woken late and has caught up: two pings have
\* been dispatched at the same instant, the second exactly at its scheduled
\* time or later, and the count of pings is at its bound.
C39_Witness ==
    /\ toggles = 0
    /\ \E r1, r2 \in Known : r1.n + 1 = r2.n /\ r1.sent = r2.sent
    /\ stats.sent = now \div conf.interval + 1
    /\ now > ticker

\* ------------------------------------------------------------------------
\* Target specs
\* ------------------------------------------------------------------------

\* The end of a range spec: the address after the '-', or the start address
\* with its last octet (IPv4) or last segment (IPv6) replaced by the number
\* after the '-'; none when that number is not an octet or a segment.
RangeEnd(a) ==
    IF a.form = "full" THEN Some(a.end)
    ELSE LET n == Len(a.start.num)
         IN  IF a.start.fam = "V4"
             THEN IF a.end_val > 255 THEN None
                  ELSE Some(V4(<<a.start.num[1],
                                 (a.start.num[2] \div 256) * 256 + a.end_val>>))
             ELSE IF a.end_val > 65535 THEN None
                  ELSE Some(V6(SubSeq(a.start.num, 1, n - 1) \o <<a.end_val>>))

\* end - start + 1 is at most k, for start <= end and k below 65536
SpanAtMost(start, end, k) ==
    LET d == LimbSub(end, start)
    IN  Front(d) = Zeros(Len(d) - 1) /\ d[Len(d)] < k

\* C33: a range spec that is accepted expands to the addresses from start to
\* end, both included, in ascending order, end - start + 1 of them; it is
\* accepted when start <= end are of one family and no more than 65536
\* addresses apart, and rejected with an error when start > end or when the
\* families differ.
C33_RangeExpansion ==
    (out # None /\ arg.form \in {"short", "full"} /\ RangeEnd(arg) # None) =>
        LET start == arg.start
            end   == RangeEnd(arg)[1]
            r     == out[1]
        IN  /\ start.fam # end.fam => r.kind = "err"
            /\ (start.fam = end.fam /\ LimbLess(end.num, start.num)) =>
                  r.kind = "err"
            /\ (/\ start.fam = end.fam
                /\ ~LimbLess(end.num, start.num)
                /\ SpanAtMost(start.num, end.num, MaxExpansion)) =>
                  r.kind = "ok"
            /\ r.kind = "ok" =>
                  /\ r.fam = start.fam /\ start.fam = end.fam
                  /\ r.first = start.num
                  /\ r.last = end.num
                  /\ ~LimbLess(end.num, start.num)
                  /\ SpanAtMost(start.num, end.num, MaxSpan) =>
                        LET v == Collect(r.first, r.last)
                            d == LimbSub(end.num, start.num)
                        IN  /\ Len(v) = d[Len(d)] + 1
                            /\ v[1] = start.num
                            /\ v[Len(v)] = end.num
                            /\ \A i \in 1..(Len(v) - 1) :
                                  /\ LimbLess(v[i], v[i + 1])
                                  /\ LimbSub(v[i + 1], v[i])
                                        = Zeros(Len(d) - 1) \o <<1>>

\* C33 witness: the short range 10.0.0.1-5 has been expanded to 5 addresses.
C33_Witness ==
    /\ out # None
    /\ arg = [form |-> "short", start |-> V4(<<2560, 1>>), end_val |-> 5]
    /\ out[1].kind = "ok"
    /\ Collect(out[1].first, out[1].last)
          = <<<<2560, 1>>, <<2560, 2>>, <<2560, 3>>, <<2560, 4>>, <<2560, 5>>>>

\* C34 as claimed: every target spec is rejected with an error or expands to
\* at most 65536 addresses.
C34_AtMost65536 ==
    out # None =>
        \/ out[1].kind = "err"
        \/ out[1].kind = "ok" /\ ~OverMax(VecLen(out[1]))

\* ------------------------------------------------------------------------
\* The target list
\* ------------------------------------------------------------------------

\* The addresses the specs of a list expand to, in the order given.
Listed(specs) == Appended(Expansions(specs, TRUE))

Range(s) == {s[i] : i \in DOMAIN s}

\* The place of the first occurrence of x in s.
FirstAt(s, x) == CHOOSE i \in DOMAIN s :
                    s[i] = x /\ \A j \in 1..(i - 1) : s[j] # x

AllParse(specs) ==
    \A i \in DOMAIN specs : parse_ip_or_range(specs[i], TRUE).kind = "ok"

\* C35: the final target list has every address once, in the order of the
\* first occurrences, and none of the excluded addresses; it is exactly the
\* listed addresses that are not excluded.  When the exclusions remove every
\* target the program exits with code 1; when they match no target it warns
\* and the list is the one without exclusions.
C35_TargetList ==
    (parsed # None /\ AllParse(cli.targets) /\ AllParse(cli.exclude)) =>
        LET r        == parsed[1]
            listed   == Listed(cli.targets)
            excluded == Range(Listed(cli.exclude))
        IN  /\ r.kind = "ok" =>
                  /\ \A i, j \in DOMAIN r.addrs :
                        i < j => /\ r.addrs[i] # r.addrs[j]
                                 /\ FirstAt(listed, r.addrs[i])
                                       < FirstAt(listed, r.addrs[j])
                  /\ Range(r.addrs) = Range(listed) \ excluded
            /\ Range(listed) \subseteq excluded => r = Exit1
            /\ (excluded # {} /\ Range(listed) \cap excluded = {}) =>
                  /\ r.kind = "ok"
                  /\ r.warned
                  /\ r.addrs = RetainUnseen(listed, {})
            /\ (r.kind = "ok" /\ r.warned) =>
                  excluded # {} /\ Range(listed) \cap excluded = {}

\* C35 witness: an address listed twice is kept once and an excluded address
\* is gone, with addresses left before and after it.
C35_Witness ==
    /\ parsed # None
    /\ parsed[1].kind = "ok"
    /\ Len(parsed[1].addrs) >= 2
    /\ \E i, j \in DOMAIN Listed(cli.targets) :
          i < j /\ Listed(cli.targets)[i] = Listed(cli.targets)[j]
    /\ Range(Listed(cli.targets)) \cap Range(Listed(cli.exclude)) # {}

\* ------------------------------------------------------------------------
\* Snapshots and the target's lock
\* ------------------------------------------------------------------------

\* A writer is inside its critical section.
WriterInside ==
    \/ pc \in {"count", "stamp", "unlock"}
    \/ \E t \in tasks :
          t.stage \in {"recv", "rtts", "status", "record", "classify",
                       "unlock"}

\* extract_stats holds the read lock.
Extracting == dpc \in {"counts", "rtts", "hist", "text", "unlock"}

\* What the snapshot in the making holds so far is what extract_stats
\* makes of the target d.
ShotOf(d) ==
    LET want == ExtractStats(d)
        got  == shot[1]
    IN  /\ got.sent \in {None, Some(want.snap.sent)}
        /\ got.recv \in {None, Some(want.snap.recv)}
        /\ got.rtt \in {None, Some(want.snap.rtt)}
        /\ got.error \in {None, Some(want.snap.error)}
        /\ got.hist \in {None, Some(want.snap.hist)}
        /\ got.text \in {None, Some(want.text)}

\* The target is between two critical sections: every ping counted has its
\* sequence number stored, every reply counted has its RTT in the window and
\* its record in the history.
Settled(d) ==
    /\ d.recv <= d.sent
    /\ d.sent > 0 => d.last_seq = (d.sent - 1) % SeqModulus
    /\ d.rtts.len = Min2(d.recv, d.rtts.cap)
    /\ d.recv = Cardinality({i \in DOMAIN d.recent.records :
                                has_response(d.recent.records[i])})
    /\ d.status = "None" <=> d.recent.records = <<>>

\* C31: all of a snapshot is read from the target as it was when
\* extract_stats got the read lock, a state between two critical sections
\* of the writers, which does not change while the lock is held; recv <= sent
\* in the snapshot; the steps of the display loop leave the target alone.
C31_SnapshotOfOneState ==
    /\ [](shot # None =>
            /\ ShotOf(seenAt[1])
            /\ Settled(seenAt[1])
            /\ Extracting => stats = seenAt[1] /\ ~WriterInside
            /\ (shot[1].sent # None /\ shot[1].recv # None) =>
                  shot[1].recv[1] <= shot[1].sent[1])
    /\ [][dpc' # dpc =>
            stats' = stats /\ tasks' = tasks /\ pc' = pc]_vars

\* C31 witness: a snapshot is complete that shows a reply, taken between the
\* dispatch of the second ping and the update for it, while the send task
\* is blocked on the lock.
C31_Witness ==
    /\ dpc = "unlock"
    /\ shot[1].sent = Some(2)
    /\ shot[1].recv = Some(1)
    /\ shot[1].text = Some("OK")
    /\ \E t \in tasks : t.stage = "lock"

Holds(task, n) == \E h \in held : h[1] = task /\ h[2] = n

\* Each holder of the lock is a task inside its critical section (running,
\* not suspended and not blocked).
HoldersRun ==
    \A h \in held :
        \/ h[1] = "loop" /\ pc \in {"count", "stamp", "unlock"}
        \/ h[1] = "display" /\ (Extracting \/ dpc = "style")
        \/ \E t \in tasks :
              /\ h[1] = "send"
              /\ t.rec.n = h[2]
              /\ t.stage \in {"recv", "rtts", "status", "record",
                              "classify", "unlock"}

\* A task is blocked in RwLock::read or RwLock::write.
Blocked == WriterWaits \/ dpc \in {"read", "row"}

\* C32: a task that is suspended (at the tick, awaiting the pinger or the
\* result of the ping, between frames) or blocked on the lock holds no lock;
\* every holder is running; a task blocked on the lock gets it.
C32_NoLockAcrossAwait ==
    /\ [](/\ pc \in {"tick", "pinger", "lock"} => ~Holds("loop", 0)
          /\ \A t \in tasks :
                t.stage \in {"ping", "lock"} => ~Holds("send", t.rec.n)
          /\ dpc \in {"idle", "read", "row"} => ~Holds("display", 0)
          /\ HoldersRun
          /\ Blocked =>
                \/ held # {}
                \/ ENABLED (LkLoopLock \/ LkSendLock \/ LkSnapLock
                                \/ LkStyleLock))
    /\ (pc = "lock") ~> Holds("loop", 0)
    /\ \A n \in 0..(MaxLockSends - 1) :
          (\E t \in tasks : t.rec.n = n /\ t.stage = "lock")
              ~> Holds("send", n)
    /\ (dpc \in {"read", "row"}) ~> Holds("display", 0)

\* C32 witness: the display loop holds the read lock in extract_stats while
\* ping_loop and a send task are blocked on the lock.
C32_Witness ==
    /\ Holds("display", 0)
    /\ Extracting
    /\ pc = "lock"
    /\ \E t \in tasks : t.stage = "lock"
====
